---------------------------- MODULE Spec2Model ----------------------------
(***************************************************************************)
(* A model of Muxage: batch muxing of VOSTFR and VF episode files.         *)
(*                                                                         *)
(*   SpecKey    extract_episode_key (media.py), the two key patterns       *)
(*   SpecFps    decide_speedfix (media.py)                                 *)
(*   SpecScan   scan_dir_for_keys and build_pairs / list_pairs             *)
(*   SpecBuild  the three mux command builders (builder.py, mux_multi.py)  *)
(*   SpecCsv    parse_offsets_csv (util.py, mux_multi.py)                   *)
(*   Spec       a run: the batch of mux_multi.main or of run_batch, or an  *)
(*              episode function called on one job                         *)
(*                                                                         *)
(* Optional values (Python None) are sequences: None is << >>, a value v   *)
(* is << v >>.  File names, keys and command tokens are strings.           *)
(***************************************************************************)
EXTENDS Integers, Sequences, FiniteSets, TLC

VARIABLES
    \* ---- extract_episode_key under test
    kname,      \* the file name given to extract_episode_key
    krelax,     \* its relax argument
    kkey,       \* the value it returned (None before the call)
    kpc,        \* "call" before the call, "ret" after it
    \* ---- decide_speedfix under test
    fbase,      \* base_ms.fps: None or a rational << numerator, denominator >>
    fdonor,     \* donor_ms.fps
    fno,        \* the no_speedfix argument
    fres,       \* the value returned (None before the call)
    fpc,        \* "call" before the call, "ret" after it
    \* ---- build_pairs / list_pairs under test
    strees,     \* the two directory trees: "A", "B" -> set of files
    sorder,     \* os.walk's order over the directories of each tree
    stodo,      \* the files of each tree the scan loop has not met yet
    smap,       \* scan_dir_for_keys' mapping of each tree, key -> file
    srelax,     \* the relax argument
    spairs,     \* the pair list returned (None before the return)
    spc,        \* "scanA", "scanB", "pair", "done"
    \* ---- the mux command builders under test
    bargs,      \* the arguments of the call
    bcmd,       \* the command returned (None before the return)
    bpc,        \* "call" before the call, "ret" after it
    \* ---- parse_offsets_csv under test
    crows,      \* the rows csv.reader yields: each a sequence of fields
    ci,         \* the number of rows the loop has been through
    coffsets,   \* the offsets dict
    cpc,        \* "loop" in the for loop, "ret" after the return
    \* ---- a run of the program: the batch, or one episode called alone
    cfg,        \* the invocation: program, options, directories, media
    rrun,       \* which run on these inputs this is: 1, 2, ...
    rpc,        \* where the batch is: "deps", "pairs", "jobs", "submit",
                \* "collect", "exit", "raised"; "call" for an episode alone
    rpairs,     \* the pair list (None before it is built)
    rjobs,      \* the EpisodeJob list
    rqueue,     \* keys submitted to the pool and not started, oldest first
    rresults,   \* the results list: keys in the order they were collected
    rexit,      \* the exit code (None while running)
    epc,        \* key -> where the episode is: "new", "queued", "inspect",
                \* "check", "preproc", "mux", "cleanup", "export", "done"
    eloc,       \* key -> the locals of the episode function
    ecalls,     \* key -> the commands the episode gave to run_subprocess
    eres,       \* key -> the JobResult returned (None before the return)
    fs,         \* the files under out_dir: path -> content
    fs0         \* fs as it was when the run started

keyVars == <<kname, krelax, kkey, kpc>>

fpsVars == <<fbase, fdonor, fno, fres, fpc>>

scanVars == <<strees, sorder, stodo, smap, srelax, spairs, spc>>

buildVars == <<bargs, bcmd, bpc>>

csvVars == <<crows, ci, coffsets, cpc>>

runVars ==
    <<cfg, rrun, rpc, rpairs, rjobs, rqueue, rresults, rexit,
      epc, eloc, ecalls, eres, fs, fs0>>

vars == <<keyVars, fpsVars, scanVars, buildVars, csvVars, runVars>>

None == << >>
Some(v) == << v >>
Val(o) == o[1]

EmptyMap == [k \in {} |-> None]

KeyIdle == kname = "" /\ krelax = FALSE /\ kkey = None /\ kpc = "idle"

FpsIdle ==
    fbase = None /\ fdonor = None /\ fno = FALSE /\ fres = None /\ fpc = "idle"

ScanIdle ==
    /\ strees = EmptyMap /\ sorder = EmptyMap /\ stodo = EmptyMap
    /\ smap = EmptyMap /\ srelax = FALSE /\ spairs = None /\ spc = "idle"

BuildIdle == bargs = None /\ bcmd = None /\ bpc = "idle"

CsvIdle == crows = << >> /\ ci = 0 /\ coffsets = EmptyMap /\ cpc = "idle"

RunIdle ==
    /\ cfg = None /\ rrun = 0 /\ rpc = "idle" /\ rpairs = None /\ rjobs = << >>
    /\ rqueue = << >> /\ rresults = << >> /\ rexit = None
    /\ epc = EmptyMap /\ eloc = EmptyMap /\ ecalls = EmptyMap /\ eres = EmptyMap
    /\ fs = EmptyMap /\ fs0 = EmptyMap

\* the variables a specification leaves alone, and their idle values
keyRest == <<fpsVars, scanVars, buildVars, csvVars, runVars>>

KeyAlone == FpsIdle /\ ScanIdle /\ BuildIdle /\ CsvIdle /\ RunIdle

fpsRest == <<keyVars, scanVars, buildVars, csvVars, runVars>>

FpsAlone == KeyIdle /\ ScanIdle /\ BuildIdle /\ CsvIdle /\ RunIdle

scanRest == <<keyVars, fpsVars, buildVars, csvVars, runVars>>

ScanAlone == KeyIdle /\ FpsIdle /\ BuildIdle /\ CsvIdle /\ RunIdle

buildRest == <<keyVars, fpsVars, scanVars, csvVars, runVars>>

BuildAlone == KeyIdle /\ FpsIdle /\ ScanIdle /\ CsvIdle /\ RunIdle

runRest == <<keyVars, fpsVars, scanVars, buildVars, csvVars>>

RunAlone == KeyIdle /\ FpsIdle /\ ScanIdle /\ BuildIdle /\ CsvIdle

csvRest == <<keyVars, fpsVars, scanVars, buildVars, runVars>>

CsvAlone == KeyIdle /\ FpsIdle /\ ScanIdle /\ BuildIdle /\ RunIdle

(***************************************************************************)
(* Characters and the word/digit classes of Python's re module (ASCII).    *)
(***************************************************************************)
Digits == {"0", "1", "2", "3", "4", "5", "6", "7", "8", "9"}

Letters ==
    {"a", "b", "c", "d", "e", "f", "g", "h", "i", "j", "k", "l", "m",
     "n", "o", "p", "q", "r", "s", "t", "u", "v", "w", "x", "y", "z",
     "A", "B", "C", "D", "E", "F", "G", "H", "I", "J", "K", "L", "M",
     "N", "O", "P", "Q", "R", "S", "T", "U", "V", "W", "X", "Y", "Z"}

WordChars == Letters \cup Digits \cup {"_"}

CharAt(s, i) == SubSeq(s, i, i)

\* \w at position i; a position outside the string is no word character
IsWordAt(s, i) == i >= 1 /\ i <= Len(s) /\ CharAt(s, i) \in WordChars

IsDigitAt(s, i) == i >= 1 /\ i <= Len(s) /\ CharAt(s, i) \in Digits

\* \b between the characters i-1 and i
BoundaryAt(s, i) == IsWordAt(s, i - 1) # IsWordAt(s, i)

\* \d{2,3} is greedy: the number of digits from i on, at most 3
DigitRun(s, i) ==
    IF ~IsDigitAt(s, i) THEN 0
    ELSE IF ~IsDigitAt(s, i + 1) THEN 1
    ELSE IF ~IsDigitAt(s, i + 2) THEN 2
    ELSE 3

\* The number of digits matched by  [Ee](\d{2,3})\b  anchored at i, with a
\* leading \b when lead; 0 when the pattern does not match at i.  The
\* quantifier tries 3 digits first and backtracks to 2.
MatchLen(s, i, lead) ==
    IF (lead => BoundaryAt(s, i)) /\ CharAt(s, i) \in {"E", "e"}
    THEN LET d == DigitRun(s, i + 1)
         IN  IF d >= 3 /\ BoundaryAt(s, i + 4) THEN 3
             ELSE IF d >= 2 /\ BoundaryAt(s, i + 3) THEN 2
             ELSE 0
    ELSE 0

\* re.search: the leftmost position at which the pattern matches, as
\* << position, digit count >>, or None
RECURSIVE SearchFrom(_, _, _)
SearchFrom(s, i, lead) ==
    IF i > Len(s) THEN None
    ELSE IF MatchLen(s, i, lead) > 0 THEN Some(<<i, MatchLen(s, i, lead)>>)
    ELSE SearchFrom(s, i + 1, lead)

\* a search that forgets the leading \b of EP_REGEX
EP_REGEX_search_nolead(name) == SearchFrom(name, 1, FALSE)

\* EP_REGEX = \b[Ee](\d{2,3})\b
EP_REGEX_search(name) == SearchFrom(name, 1, TRUE)

\* a relaxed search that still asks for the leading \b
RELAX_EP_REGEX_search_lead(name) == SearchFrom(name, 1, TRUE)

\* RELAX_EP_REGEX = (?i)E(\d{2,3})\b
RELAX_EP_REGEX_search(name) == SearchFrom(name, 1, FALSE)

\* m.group(1) of a match m = << position, digit count >>
Group1(s, m) == SubSeq(s, m[1] + 1, m[1] + m[2])

extract_episode_key(name, relax) ==
    LET m == EP_REGEX_search(name)
    IN  IF m = None
        THEN IF relax
             THEN LET m2 == RELAX_EP_REGEX_search(name)
                  IN  IF m2 = None THEN None
                      ELSE Some("E" \o Group1(name, Val(m2)))
             ELSE None
        ELSE Some("E" \o Group1(name, Val(m)))

(***************************************************************************)
(* Frame rates.  ffprobe reports a rate as "num/den" and _extract_fps      *)
(* divides; the model keeps the rational << num, den >> (den > 0) and      *)
(* compares by cross-multiplication, so no rounding enters.                *)
(***************************************************************************)
EPSILON_FPS == <<1, 50>>            \* 0.02

FPS_VFR_TARGET == <<24000, 1001>>   \* 24000 / 1001.0

FPS_PAL == <<25, 1>>                \* 25.0

Abs(n) == IF n < 0 THEN -n ELSE n

\* a comparison that leaves the bounds out
approx_equal_strict(a, b, tol) ==
    Abs(a[1] * b[2] - b[1] * a[2]) * tol[2] < tol[1] * a[2] * b[2]

\* abs(a - b) <= tol
approx_equal(a, b, tol) ==
    Abs(a[1] * b[2] - b[1] * a[2]) * tol[2] <= tol[1] * a[2] * b[2]

\* a decision that never corrects the speed
decide_speedfix_never(base_ms, donor_ms, no_speedfix) == FALSE

decide_speedfix(base_ms, donor_ms, no_speedfix) ==
    IF no_speedfix THEN FALSE
    ELSE IF base_ms.fps = None \/ donor_ms.fps = None THEN FALSE
    ELSE IF /\ approx_equal(Val(base_ms.fps), FPS_VFR_TARGET, EPSILON_FPS)
            /\ approx_equal(Val(donor_ms.fps), FPS_PAL, EPSILON_FPS)
         THEN TRUE
    ELSE FALSE

(***************************************************************************)
(* scan_dir_for_keys and build_pairs / list_pairs.  A file is a record     *)
(* [name, dir, mtime, statOk]: dir is the tuple of directory names under   *)
(* the scanned root, statOk tells whether Path.stat() succeeds on it.      *)
(***************************************************************************)
UpperCase == "ABCDEFGHIJKLMNOPQRSTUVWXYZ"

LowerCase == "abcdefghijklmnopqrstuvwxyz"

\* upper-case letter -> its lower-case letter
LowerOf ==
    [c \in {CharAt(UpperCase, i) : i \in 1..Len(UpperCase)} |->
        CharAt(LowerCase, CHOOSE i \in 1..Len(UpperCase) : CharAt(UpperCase, i) = c)]

LowerChar(c) == IF c \in DOMAIN LowerOf THEN LowerOf[c] ELSE c

\* str.lower()
RECURSIVE Lower(_)
Lower(s) ==
    IF s = "" THEN ""
    ELSE LowerChar(CharAt(s, 1)) \o Lower(SubSeq(s, 2, Len(s)))

MediaExtensions ==
    {".mkv", ".mp4", ".m4v", ".mov", ".avi", ".mpg", ".ts", ".mka", ".flac",
     ".aac", ".ac3", ".dts", ".opus", ".mp3", ".wav", ".m4a"}

EndsWith(s, suffix) ==
    Len(s) >= Len(suffix) /\ SubSeq(s, Len(s) - Len(suffix) + 1, Len(s)) = suffix

\* any(fnmatch.fnmatch(f.lower(), "*" + ext) ...)
IsMedia(f) ==
    LET low == Lower(f)
    IN  \E ext \in MediaExtensions : EndsWith(low, ext)

\* Path(root) / f, as its parts, for a file of tree t
PathParts(t, file) == <<"/", "in", t>> \o file.dir \o <<file.name>>

\* one turn of the loop over the files: the mapping after meeting file
ScanStep(t, mapping, file, relax) ==
    IF ~IsMedia(file.name) THEN mapping
    ELSE LET key == extract_episode_key(file.name, relax)
         IN  IF key = None THEN mapping
             ELSE IF Val(key) \notin DOMAIN mapping
                  THEN mapping @@ (Val(key) :> file)
             ELSE LET existing == mapping[Val(key)]
                  IN  IF Len(PathParts(t, existing)) > Len(PathParts(t, file))
                      THEN [mapping EXCEPT ![Val(key)] = file]
                      ELSE IF ~file.statOk \/ ~existing.statOk
                           THEN mapping          \* except Exception: pass
                      ELSE IF file.mtime > existing.mtime
                           THEN [mapping EXCEPT ![Val(key)] = file]
                      ELSE mapping

\* Code point order of the characters a key is made of
CodeOrder == "0123456789E"

Ord(c) == CHOOSE i \in 1..Len(CodeOrder) : CharAt(CodeOrder, i) = c

\* a < b for strings, as Python compares them
RECURSIVE StrLess(_, _)
StrLess(a, b) ==
    IF b = "" THEN FALSE
    ELSE IF a = "" THEN TRUE
    ELSE IF CharAt(a, 1) # CharAt(b, 1) THEN Ord(CharAt(a, 1)) < Ord(CharAt(b, 1))
    ELSE StrLess(SubSeq(a, 2, Len(a)), SubSeq(b, 2, Len(b)))

\* an order on the text of the keys alone
KeyLessByText(a, b) == StrLess(a, b)

\* (len(a), a) < (len(b), b)
KeyLess(a, b) == Len(a) < Len(b) \/ (Len(a) = Len(b) /\ StrLess(a, b))

\* sorted(keys, key=lambda k: (len(k), k))
RECURSIVE SortedKeys(_)
SortedKeys(keys) ==
    IF keys = {} THEN << >>
    ELSE LET first == CHOOSE k \in keys : \A o \in keys \ {k} : KeyLess(k, o)
         IN  <<first>> \o SortedKeys(keys \ {first})

\* a pairing over the keys of either mapping
PairsOfUnion(a_map, b_map) ==
    LET keys == SortedKeys(DOMAIN a_map \cup DOMAIN b_map)
    IN  [i \in 1..Len(keys) |->
            <<keys[i],
              IF keys[i] \in DOMAIN a_map THEN a_map[keys[i]] ELSE None,
              IF keys[i] \in DOMAIN b_map THEN b_map[keys[i]] ELSE None>>]

\* the pair list built from the two mappings
PairsOf(a_map, b_map) ==
    LET keys == SortedKeys(DOMAIN a_map \cap DOMAIN b_map)
    IN  [i \in 1..Len(keys) |-> <<keys[i], a_map[keys[i]], b_map[keys[i]]>>]

(***************************************************************************)
(* Stream metadata.  ffprobe's answer for a file is the sequence of its    *)
(* streams, each [index, codec_type, language, channels, avg_frame_rate,   *)
(* r_frame_rate, time_base]; an absent field is None, a rate or time base  *)
(* "n/d" is << n, d >>.                                                    *)
(***************************************************************************)
LANG_FR_SET == {"fra", "fre", "fr"}

LANG_JP_SET == {"jpn", "ja", "japanese"}

StartsWith(s, prefix) == Len(s) >= Len(prefix) /\ SubSeq(s, 1, Len(prefix)) = prefix

\* the rate of a video stream: avg_frame_rate, then r_frame_rate, each
\* skipped when absent or with a zero denominator, then 1 / time_base
extract_fps(st) ==
    IF st.avg_frame_rate # None /\ Val(st.avg_frame_rate)[2] # 0
    THEN st.avg_frame_rate
    ELSE IF st.r_frame_rate # None /\ Val(st.r_frame_rate)[2] # 0
    THEN st.r_frame_rate
    ELSE IF st.time_base # None /\ Val(st.time_base)[1] # 0
    THEN Some(<<Val(st.time_base)[2], Val(st.time_base)[1]>>)
    ELSE None

\* the absolute indices of the streams of one codec type, in file order
RECURSIVE IndicesOfType(_, _)
IndicesOfType(streams, type) ==
    IF streams = << >> THEN << >>
    ELSE (IF Head(streams).codec_type = type THEN <<Head(streams).index>> ELSE << >>)
         \o IndicesOfType(Tail(streams), type)

\* index -> lowercased language tag, for the tagged streams of one type
LangsOfType(streams, type) ==
    LET tagged == {i \in DOMAIN streams :
                      streams[i].codec_type = type /\ Lower(streams[i].language) # ""}
    IN  [idx \in {streams[i].index : i \in tagged} |->
            Lower(streams[CHOOSE i \in tagged : streams[i].index = idx].language)]

ChannelsOf(streams) ==
    LET known == {i \in DOMAIN streams :
                     streams[i].codec_type = "audio" /\ streams[i].channels # None}
    IN  [idx \in {streams[i].index : i \in known} |->
            Val(streams[CHOOSE i \in known : streams[i].index = idx].channels)]

\* fps of the first video stream that has one
RECURSIVE FirstFps(_)
FirstFps(streams) ==
    IF streams = << >> THEN None
    ELSE IF Head(streams).codec_type = "video" /\ extract_fps(Head(streams)) # None
    THEN extract_fps(Head(streams))
    ELSE FirstFps(Tail(streams))

parse_media_streams(streams) ==
    [video_indices |-> IndicesOfType(streams, "video"),
     audio_indices |-> IndicesOfType(streams, "audio"),
     subtitle_indices |-> IndicesOfType(streams, "subtitle"),
     attachment_indices |-> IndicesOfType(streams, "attachment"),
     audio_langs |-> LangsOfType(streams, "audio"),
     subtitle_langs |-> LangsOfType(streams, "subtitle"),
     audio_channels |-> ChannelsOf(streams),
     fps |-> FirstFps(streams)]

\* dict.get(idx, default)
Get(map, idx, default) == IF idx \in DOMAIN map THEN map[idx] ELSE default

\* the first element of indices that is in good, or None
RECURSIVE FirstIn(_, _)
FirstIn(indices, good) ==
    IF indices = << >> THEN None
    ELSE IF Head(indices) \in good THEN Some(Head(indices))
    ELSE FirstIn(Tail(indices), good)

Range(seq) == {seq[i] : i \in DOMAIN seq}

\* a selection that settles for the first audio stream of the file
find_first_audio_index(ms) ==
    IF ms.audio_indices = << >> THEN None ELSE Some(Head(ms.audio_indices))

find_first_jpn_audio_index(ms) ==
    LET IsJpn(idx) ==
            LET lang == Lower(Get(ms.audio_langs, idx, ""))
            IN  lang \in LANG_JP_SET \/ StartsWith(lang, "jp")
    IN  FirstIn(ms.audio_indices, {idx \in Range(ms.audio_indices) : IsJpn(idx)})

select_fr_audio_stream(ms) ==
    LET IsFr(idx) == Lower(Get(ms.audio_langs, idx, "")) \in LANG_FR_SET
    IN  FirstIn(ms.audio_indices, {idx \in Range(ms.audio_indices) : IsFr(idx)})

first_fr_subtitle_index(ms) ==
    LET IsFr(idx) == Lower(Get(ms.subtitle_langs, idx, "")) \in LANG_FR_SET
    IN  FirstIn(ms.subtitle_indices, {idx \in Range(ms.subtitle_indices) : IsFr(idx)})

(***************************************************************************)
(* The mux commands.  A command is the sequence of its tokens.             *)
(***************************************************************************)
\* list.index(v) as a 0-based position, None where Python raises ValueError
PositionIn(seq, v) ==
    IF \E i \in DOMAIN seq : seq[i] = v
    THEN Some((CHOOSE i \in DOMAIN seq : seq[i] = v /\ \A j \in 1..(i - 1) : seq[j] # v) - 1)
    ELSE None

\* "-map" of an audio stream by its position among the audio streams of
\* input n, by its absolute index when it is not among them
MapAudioRelative(n, ms, idx) ==
    IF PositionIn(ms.audio_indices, idx) # None
    THEN <<"-map", ToString(n) \o ":a:" \o ToString(Val(PositionIn(ms.audio_indices, idx)))>>
    ELSE <<"-map", ToString(n) \o ":" \o ToString(idx)>>

\* the donor audio as the first audio stream of input 1, whatever was chosen
MapDonorAudioFirst(use_temp_processed_audio, ms, idx) == <<"-map", "1:a:0">>

\* the donor audio of input 1: the temporary artifact's only stream, or the
\* chosen stream of the donor file
MapDonorAudio(use_temp_processed_audio, ms, idx) ==
    IF use_temp_processed_audio THEN <<"-map", "1:a:0">>
    ELSE IF idx # None THEN MapAudioRelative(1, ms, Val(idx))
    ELSE <<"-map", "1:a:0">>

CodecArgs(use_temp_processed_audio) ==
    IF use_temp_processed_audio
    THEN <<"-c:v", "copy", "-c:s", "copy", "-c:a:0", "copy", "-c:a:1", "copy">>
    ELSE <<"-c:v", "copy", "-c:s", "copy", "-c:a", "copy">>

\* a metadata block that leaves the second track's disposition unset
AudioMetadataUnset(default_vf) ==
    IF default_vf
    THEN <<"-metadata:s:a:0", "language=fra", "-metadata:s:a:0", "title=VF",
           "-disposition:a:0", "default",
           "-metadata:s:a:1", "language=jpn", "-metadata:s:a:1", "title=VO (Japonais)">>
    ELSE <<"-metadata:s:a:0", "language=jpn", "-metadata:s:a:0", "title=VO (Japonais)",
           "-disposition:a:0", "default",
           "-metadata:s:a:1", "language=fra", "-metadata:s:a:1", "title=VF">>

\* languages, titles and dispositions of the two output audio tracks
AudioMetadata(default_vf) ==
    IF default_vf
    THEN <<"-metadata:s:a:0", "language=fra", "-metadata:s:a:0", "title=VF",
           "-disposition:a:0", "default",
           "-metadata:s:a:1", "language=jpn", "-metadata:s:a:1", "title=VO (Japonais)",
           "-disposition:a:1", "0">>
    ELSE <<"-metadata:s:a:0", "language=jpn", "-metadata:s:a:0", "title=VO (Japonais)",
           "-disposition:a:0", "default",
           "-metadata:s:a:1", "language=fra", "-metadata:s:a:1", "title=VF",
           "-disposition:a:1", "0">>

\* the default disposition of the subtitle fr_sub_idx, by its stream index
DefaultSubtitleAbsolute(fr_sub_idx, vostfr_ms) ==
    IF fr_sub_idx # None /\ vostfr_ms.subtitle_indices # << >>
    THEN <<"-disposition:s:" \o ToString(Val(fr_sub_idx)), "default">>
    ELSE << >>

\* the default disposition of the subtitle fr_sub_idx, by its position
\* among the subtitle streams
DefaultSubtitle(fr_sub_idx, vostfr_ms) ==
    IF /\ fr_sub_idx # None
       /\ vostfr_ms.subtitle_indices # << >>
       /\ PositionIn(vostfr_ms.subtitle_indices, Val(fr_sub_idx)) # None
    THEN <<"-disposition:s:"
             \o ToString(Val(PositionIn(vostfr_ms.subtitle_indices, Val(fr_sub_idx)))),
           "default">>
    ELSE << >>

\* muxage.builder: base = VOSTFR (input 0), donor = VF audio (input 1)
build_mux_command_vf_to_vostfr(vostfr_path, vf_audio_path_or_input, use_temp_processed_audio, vo_jpn_stream_index_in_vostfr, fr_stream_index_in_vf, vostfr_ms, vf_ms, out_path, default_vf) ==
    LET vo == MapAudioRelative(0, vostfr_ms, vo_jpn_stream_index_in_vostfr)
        vf == MapDonorAudio(use_temp_processed_audio, vf_ms, fr_stream_index_in_vf)
    IN  <<"ffmpeg", "-y", "-v", "error", "-i", vostfr_path,
          "-i", vf_audio_path_or_input, "-map_chapters", "0">>
        \o <<"-map", "0:v:0">>
        \o (IF default_vf THEN vf \o vo ELSE vo \o vf)
        \o (IF vostfr_ms.subtitle_indices # << >> THEN <<"-map", "0:s?">> ELSE << >>)
        \o <<"-map", "0:t?">>
        \o CodecArgs(use_temp_processed_audio)
        \o AudioMetadata(default_vf)
        \o DefaultSubtitle(first_fr_subtitle_index(vostfr_ms), vostfr_ms)
        \o <<out_path>>

\* muxage.builder: base = VF (input 0), donor = VOSTFR audio (input 1)
build_mux_command_vostfr_to_vf(vf_path, vostfr_audio_or_input, use_temp_processed_audio, vo_jpn_stream_index_in_vostfr, fr_stream_index_in_vf, vostfr_ms, out_path, default_vf) ==
    LET vf == IF fr_stream_index_in_vf # None
              THEN <<"-map", "0:" \o ToString(Val(fr_stream_index_in_vf))>>
              ELSE <<"-map", "0:a:0">>
        vo == MapDonorAudio(use_temp_processed_audio, vostfr_ms,
                            vo_jpn_stream_index_in_vostfr)
    IN  <<"ffmpeg", "-y", "-v", "error", "-i", vf_path,
          "-i", vostfr_audio_or_input, "-map_chapters", "0">>
        \o <<"-map", "0:v:0">>
        \o (IF default_vf THEN vf \o vo ELSE vo \o vf)
        \o (IF vostfr_ms.subtitle_indices # << >> THEN <<"-map", "1:s?">> ELSE << >>)
        \o <<"-map", "1:t?">>
        \o CodecArgs(use_temp_processed_audio)
        \o AudioMetadata(default_vf)
        \o DefaultSubtitle(first_fr_subtitle_index(vostfr_ms), vostfr_ms)
        \o <<out_path>>

\* mux_multi: input 0 = VOSTFR, input 1 = VF audio; VO first and default
build_mux_command(vostfr_path, vf_audio_path_or_input, use_temp_processed_audio, vo_jpn_stream_index, fr_stream_index_in_vf, vostfr_ms, out_path, set_default_fr_sub_idx) ==
    <<"ffmpeg", "-y", "-v", "error", "-i", vostfr_path,
      "-i", vf_audio_path_or_input, "-map_chapters", "0">>
    \o <<"-map", "0:v:0">>
    \o <<"-map", "0:" \o ToString(vo_jpn_stream_index)>>
    \o (IF use_temp_processed_audio THEN <<"-map", "1:a:0">>
        ELSE IF fr_stream_index_in_vf = None THEN <<"-map", "1:a:0">>
        ELSE <<"-map", "1:" \o ToString(Val(fr_stream_index_in_vf))>>)
    \o (IF vostfr_ms.subtitle_indices # << >> THEN <<"-map", "0:s?">> ELSE << >>)
    \o <<"-map", "0:t?">>
    \o <<"-c:v", "copy">> \o <<"-c:s", "copy">> \o <<"-c:a", "copy">>
    \o AudioMetadata(FALSE)
    \o DefaultSubtitle(set_default_fr_sub_idx, vostfr_ms)
    \o <<out_path>>

(***************************************************************************)
(* The preprocessing command of the donor audio.                           *)
(***************************************************************************)
\* sep.join(seq)
RECURSIVE Join(_, _)
Join(seq, sep) ==
    IF seq = << >> THEN ""
    ELSE IF Len(seq) = 1 THEN seq[1]
    ELSE seq[1] \o sep \o Join(Tail(seq), sep)

\* str(ms / 1000.0) for ms >= 0: the shortest decimal, one digit at least
\* after the point
SecondsRepr(ms) ==
    LET r == ms % 1000
        frac == IF r % 100 = 0 THEN ToString(r \div 100)
                ELSE IF r % 10 = 0
                     THEN (IF r < 100 THEN "0" ELSE "") \o ToString(r \div 10)
                ELSE (IF r < 10 THEN "00" ELSE IF r < 100 THEN "0" ELSE "")
                     \o ToString(r)
    IN  ToString(ms \div 1000) \o "." \o frac

\* "adelay=" with one delay per channel, two channels when none is known
build_adelay_filter(ms_delay, channels) ==
    LET n == IF channels <= 0 THEN 2 ELSE channels
    IN  "adelay=" \o Join([i \in 1..n |-> ToString(ms_delay)], "|")

\* a chain that delays on a negative offset and trims on a positive one
PreprocFiltersSwapped(offset_ms, apply_speedfix, channels) ==
    (IF offset_ms > 0
     THEN <<"atrim=start=" \o SecondsRepr(Abs(offset_ms)), "asetpts=PTS-STARTPTS">>
     ELSE IF offset_ms < 0
     THEN <<build_adelay_filter(offset_ms, channels)>>
     ELSE << >>)
    \o (IF apply_speedfix THEN <<"atempo=0.95904">> ELSE << >>)

\* a chain with the speed correction ahead of the offset filter
PreprocFiltersTempoFirst(offset_ms, apply_speedfix, channels) ==
    (IF apply_speedfix THEN <<"atempo=0.95904">> ELSE << >>)
    \o (IF offset_ms < 0
        THEN <<"atrim=start=" \o SecondsRepr(Abs(offset_ms)), "asetpts=PTS-STARTPTS">>
        ELSE IF offset_ms > 0
        THEN <<build_adelay_filter(offset_ms, channels)>>
        ELSE << >>)

\* the filters list: the offset filter, then the speed correction
PreprocFilters(offset_ms, apply_speedfix, channels) ==
    (IF offset_ms < 0
     THEN <<"atrim=start=" \o SecondsRepr(Abs(offset_ms)), "asetpts=PTS-STARTPTS">>
     ELSE IF offset_ms > 0
     THEN <<build_adelay_filter(offset_ms, channels)>>
     ELSE << >>)
    \o (IF apply_speedfix THEN <<"atempo=0.95904">> ELSE << >>)

\* the command preproc_audio_to_temp_flac / preproc_vf_audio_to_temp_flac
\* runs, writing temp_out
PreprocCommand(input_path, abs_stream_index, temp_out, offset_ms, apply_speedfix, channels) ==
    LET filters == PreprocFilters(offset_ms, apply_speedfix, channels)
    IN  <<"ffmpeg", "-y", "-v", "error", "-i", input_path,
          "-map", "0:" \o ToString(abs_stream_index), "-vn", "-sn">>
        \o (IF filters # << >> THEN <<"-af", Join(filters, ",")>> ELSE << >>)
        \o <<"-c:a", "flac", temp_out>>

\* Path.stem: the name without its last suffix
RECURSIVE LastDot(_, _)
LastDot(name, i) ==
    IF i <= 1 THEN 0
    ELSE IF CharAt(name, i) = "." THEN i
    ELSE LastDot(name, i - 1)

Stem(name) ==
    IF LastDot(name, Len(name)) = 0 THEN name
    ELSE SubSeq(name, 1, LastDot(name, Len(name)) - 1)

\* one temporary file for all the episodes
TempPathShared(prog, out_dir, key) == out_dir \o "/.temp_mux/preproc.flac"

\* out_dir / ".temp_mux" / "<key>_preproc.flac" (muxage) or
\* "<key>_vf_preproc.flac" (mux_multi)
TempPath(prog, out_dir, key) ==
    out_dir \o "/.temp_mux/" \o key
        \o (IF prog = "mux_multi" THEN "_vf_preproc.flac" ELSE "_preproc.flac")

\* mux_multi.derive_out_path
derive_out_path(vostfr_file, out_dir) == out_dir \o "/" \o Stem(vostfr_file) \o ".MULTi.mkv"

(***************************************************************************)
(* Files: what ffprobe answers for the files the episodes are made of.     *)
(***************************************************************************)
Stream(index, codec_type, language, channels, rate) ==
    [index |-> index, codec_type |-> codec_type, language |-> language,
     channels |-> channels, avg_frame_rate |-> rate, r_frame_rate |-> None,
     time_base |-> None]

Film == Some(<<24000, 1001>>)

Pal == Some(<<25, 1>>)

\* ffprobe's answer for a file, by the name of the file's kind
Streams(name) ==
    CASE name = "VostfrGood" ->
            \* video, Japanese audio, two subtitles (the second French), a font
            <<Stream(0, "video", "", None, Film), Stream(1, "audio", "jpn", Some(2), None),
              Stream(2, "subtitle", "eng", None, None),
              Stream(3, "subtitle", "fre", None, None),
              Stream(4, "attachment", "", None, None)>>
      [] name = "VostfrInterleaved" ->
            \* the Japanese audio is the second audio stream, behind the video
            <<Stream(0, "audio", "eng", Some(2), None), Stream(1, "video", "", None, Film),
              Stream(2, "subtitle", "fra", None, None),
              Stream(3, "audio", "Japanese", Some(6), None)>>
      [] name = "VostfrBare" ->
            \* no subtitle at all
            <<Stream(0, "video", "", None, Film), Stream(1, "audio", "ja", None, None)>>
      [] name = "VostfrEngSub" ->
            \* subtitles, none of them French
            <<Stream(0, "video", "", None, Film), Stream(1, "audio", "jpn", Some(2), None),
              Stream(2, "subtitle", "eng", None, None),
              Stream(3, "subtitle", "", None, None)>>
      [] name = "VostfrNoJpn" ->
            <<Stream(0, "video", "", None, Film), Stream(1, "audio", "eng", Some(2), None)>>
      [] name = "VfPal" ->
            <<Stream(0, "video", "", None, Pal), Stream(1, "audio", "fra", Some(6), None)>>
      [] name = "VfFilm" ->
            \* the French audio is the second audio stream; there is a subtitle
            <<Stream(0, "video", "", None, Film), Stream(1, "audio", "eng", Some(2), None),
              Stream(2, "audio", "FRE", Some(2), None),
              Stream(3, "subtitle", "fra", None, None)>>
      [] name = "VfAudioOnly" ->
            <<Stream(0, "audio", "fr", None, None)>>
      [] name = "VfNoFr" ->
            <<Stream(0, "video", "", None, Pal), Stream(1, "audio", "jpn", Some(2), None)>>

(***************************************************************************)
(* SpecBuild: the three command builders applied to the arguments their    *)
(* callers can pass, and to default_vf = TRUE, which the callers never     *)
(* pass.                                                                   *)
(***************************************************************************)
Builders == {"build_mux_command_vf_to_vostfr", "build_mux_command_vostfr_to_vf",
             "build_mux_command"}

\* build_mux_command of mux_multi has no default_vf parameter
BuildInputs ==
    {a \in [fn : Builders, vostfr : {"VostfrGood", "VostfrInterleaved", "VostfrBare"},
            vf : {"VfPal", "VfFilm", "VfAudioOnly"}, use_temp : BOOLEAN,
            default_vf : BOOLEAN] :
        a.fn = "build_mux_command" => ~a.default_vf}

\* the call, with the stream indices its caller selected; the caller passes
\* no index for an audio that was preprocessed
ApplyBuilder(a) ==
    LET vostfr_ms == parse_media_streams(Streams(a.vostfr))
        vf_ms == parse_media_streams(Streams(a.vf))
        vo == find_first_jpn_audio_index(vostfr_ms)
        fr == select_fr_audio_stream(vf_ms)
    IN  IF a.fn = "build_mux_command_vf_to_vostfr"
        THEN build_mux_command_vf_to_vostfr("vostfr/Show.E07.mkv",
                 IF a.use_temp THEN "out/.temp_mux/E07_preproc.flac" ELSE "vf/Show.E07.mkv",
                 a.use_temp, Val(vo), IF a.use_temp THEN None ELSE fr,
                 vostfr_ms, vf_ms, "out/Show.E07.mkv", a.default_vf)
        ELSE IF a.fn = "build_mux_command_vostfr_to_vf"
        THEN build_mux_command_vostfr_to_vf("vf/Show.E07.mkv",
                 IF a.use_temp THEN "out/.temp_mux/E07_preproc.flac" ELSE "vostfr/Show.E07.mkv",
                 a.use_temp, IF a.use_temp THEN None ELSE vo, fr,
                 vostfr_ms, "out/Show.E07.mkv", a.default_vf)
        ELSE build_mux_command("vostfr/Show.E07.mkv",
                 IF a.use_temp THEN "out/.temp_mux/E07_vf_preproc.flac" ELSE "vf/Show.E07.mkv",
                 a.use_temp, Val(vo), IF a.use_temp THEN None ELSE fr,
                 vostfr_ms, "out/Show.E07.MULTi.mkv", first_fr_subtitle_index(vostfr_ms))

InitBuild ==
    /\ bargs \in {Some(a) : a \in BuildInputs}
    /\ bcmd = None
    /\ bpc = "call"
    /\ BuildAlone

BuildCommand ==
    /\ bpc = "call"
    /\ bcmd' = Some(ApplyBuilder(Val(bargs)))
    /\ bpc' = "ret"
    /\ UNCHANGED bargs
    /\ UNCHANGED buildRest

NextBuild == BuildCommand

SpecBuild == InitBuild /\ [][NextBuild]_vars

\* the values given to an option of a command, one per occurrence
OptionValues(cmd, opt) ==
    [j \in 1..Cardinality({i \in 1..(Len(cmd) - 1) : cmd[i] = opt}) |->
        cmd[1 + CHOOSE i \in 1..(Len(cmd) - 1) :
                  /\ cmd[i] = opt
                  /\ Cardinality({h \in 1..i : cmd[h] = opt}) = j]]

\* C1: the command of every builder, for every default_vf and every
\* preprocessing flag, sets the disposition of each of the audio tracks a:0
\* and a:1 exactly once, one of them to "default" and the other to "0".
C1_OneDefaultAudio ==
    bpc = "ret" =>
        LET a0 == OptionValues(Val(bcmd), "-disposition:a:0")
            a1 == OptionValues(Val(bcmd), "-disposition:a:1")
        IN  /\ Len(a0) = 1 /\ Len(a1) = 1
            /\ \/ a0[1] = "default" /\ a1[1] = "0"
               \/ a0[1] = "0" /\ a1[1] = "default"

C1_Witness ==
    /\ bpc = "ret"
    /\ Val(bargs).fn = "build_mux_command_vostfr_to_vf"
    /\ Val(bargs).default_vf /\ Val(bargs).use_temp
    /\ OptionValues(Val(bcmd), "-disposition:a:0") = <<"default">>
    /\ OptionValues(Val(bcmd), "-disposition:a:1") = <<"0">>
    /\ OptionValues(Val(bcmd), "-metadata:s:a:0") = <<"language=fra", "title=VF">>

(***************************************************************************)
(* SpecKey: extract_episode_key applied to every short name over a small   *)
(* alphabet and to the names the documentation quotes.                     *)
(***************************************************************************)
MaxNameLen == 5

KeyAlphabet == {"E", "e", "0", "x", "."}

RECURSIVE NamesOfLen(_)
NamesOfLen(n) ==
    IF n = 0 THEN {""}
    ELSE {s \o c : s \in NamesOfLen(n - 1), c \in KeyAlphabet}

ExampleNames ==
    {"Show.E07.mkv", "Show.SuperE07x.mkv", "Show.SuperE07.mkv",
     "Show.S01E01.mkv", "S01E01.E02.mkv", "Show.S01E01x.mkv",
     "Show_E07.mkv", "Show.e123.mkv", "Show.E1234.mkv"}

NameInputs == UNION {NamesOfLen(n) : n \in 0..MaxNameLen} \cup ExampleNames

InitKey ==
    /\ kname \in NameInputs
    /\ krelax \in BOOLEAN
    /\ kkey = None
    /\ kpc = "call"
    /\ KeyAlone

ExtractKey ==
    /\ kpc = "call"
    /\ kkey' = extract_episode_key(kname, krelax)
    /\ kpc' = "ret"
    /\ UNCHANGED <<kname, krelax>>
    /\ UNCHANGED keyRest

NextKey == ExtractKey

SpecKey == InitKey /\ [][NextKey]_vars

(***************************************************************************)
(* Claims about the key patterns.                                          *)
(***************************************************************************)
\* s holds sub as a substring
Contains(s, sub) ==
    \E i \in 1..(Len(s) - Len(sub) + 1) : SubSeq(s, i, i + Len(sub) - 1) = sub

\* at position i of s: E or e, then exactly n digits
TokenAt(s, i, n) ==
    /\ i >= 1 /\ i + n <= Len(s)
    /\ CharAt(s, i) \in {"E", "e"}
    /\ \A j \in 1..n : CharAt(s, i + j) \in Digits

\* no letter, digit or underscore just before position i
EdgeBefore(s, i) == i = 1 \/ CharAt(s, i - 1) \notin WordChars

\* no letter, digit or underscore just after position j
EdgeAfter(s, j) == j = Len(s) \/ CharAt(s, j + 1) \notin WordChars

HasStrictToken(s) ==
    \E i \in 1..Len(s) : \E n \in {2, 3} :
        TokenAt(s, i, n) /\ EdgeBefore(s, i) /\ EdgeAfter(s, i + n)

HasTrailingToken(s) ==
    \E i \in 1..Len(s) : \E n \in {2, 3} :
        TokenAt(s, i, n) /\ EdgeAfter(s, i + n)

HasAnyToken(s) ==
    \E i \in 1..Len(s) : \E n \in {2, 3} : TokenAt(s, i, n)

\* C6: in non-relaxed mode extract_episode_key returns a key iff the name
\* holds E/e + 2 or 3 digits with a word boundary on both sides;
\* Show.E07.mkv yields E07 and Show.SuperE07x.mkv yields no key.
C6_StrictKeyIffBoundedToken ==
    (kpc = "ret" /\ ~krelax) =>
        /\ (kkey # None) <=> HasStrictToken(kname)
        /\ kname = "Show.E07.mkv" => kkey = Some("E07")
        /\ kname = "Show.SuperE07x.mkv" => kkey = None

C6_Witness ==
    /\ kpc = "ret" /\ ~krelax
    /\ kname = "xE00." /\ kkey = None

\* C7 as stated: in relaxed mode a name holding E + 2 or 3 digits without a
\* leading boundary yields a key; a name holding S01E01 yields E01 and
\* Show.SuperE07x.mkv yields E07.
C7_Original ==
    (kpc = "ret" /\ krelax) =>
        /\ HasAnyToken(kname) => kkey # None
        /\ Contains(kname, "S01E01") => kkey = Some("E01")
        /\ kname = "Show.SuperE07x.mkv" => kkey = Some("E07")

\* C7 amended: in relaxed mode extract_episode_key returns a key iff the
\* name holds E/e + 2 or 3 digits followed by a word boundary (the leading
\* boundary alone is dropped); Show.S01E01.mkv yields E01,
\* Show.SuperE07.mkv yields E07 and Show.SuperE07x.mkv yields no key.
C7_RelaxedKeyIffTrailingEdge ==
    (kpc = "ret" /\ krelax) =>
        /\ (kkey # None) <=> HasTrailingToken(kname)
        /\ kname = "Show.S01E01.mkv" => kkey = Some("E01")
        /\ kname = "Show.SuperE07.mkv" => kkey = Some("E07")
        /\ kname = "Show.SuperE07x.mkv" => kkey = None

C7_Witness ==
    /\ kpc = "ret" /\ krelax
    /\ kname = "Show.S01E01.mkv" /\ kkey = Some("E01")

(***************************************************************************)
(* SpecScan: build_pairs(dir_a, dir_b, relax).  Tree A is any set of at    *)
(* most MaxFiles files of FilesA, tree B one of TreesB.  os.walk is        *)
(* top-down: it yields a directory before its subdirectories, siblings in  *)
(* the order the file system lists them, and the files of one directory    *)
(* in listing order; the scan meets the files of the first directory of    *)
(* the walk that still has files, in any order.                            *)
(***************************************************************************)
MaxFiles == 3

File(name, dir, mtime, statOk) ==
    [name |-> name, dir |-> dir, mtime |-> mtime, statOk |-> statOk]

FilesA ==
    {File("Show.E01.mkv", << >>, 1, TRUE),
     File("show.e01.MP4", << >>, 2, TRUE),
     File("Show.E01.mkv", <<"s">>, 3, TRUE),
     File("Show.E01.mkv", <<"t">>, 1, TRUE),
     File("Show.E01.mkv", <<"s", "u">>, 2, TRUE),
     File("Show.E02.mkv", << >>, 1, TRUE),
     File("Show.E02.avi", << >>, 2, FALSE),
     File("Show.S01E03.mkv", <<"s">>, 1, TRUE),
     File("Show.E100.mkv", << >>, 1, TRUE),
     File("notes.E02.txt", << >>, 1, TRUE),
     File("cover.mkv", << >>, 1, TRUE)}

TreesA == {T \in SUBSET FilesA : Cardinality(T) <= MaxFiles}

TreesB ==
    {{},
     {File("VF.E01.mka", << >>, 1, TRUE), File("VF.E02.mkv", << >>, 1, TRUE)},
     {File("VF.E100.mkv", << >>, 1, TRUE), File("VF.E02.mkv", << >>, 1, TRUE),
      File("VF.S01E03.mkv", << >>, 1, TRUE)},
     {File("VF.E01.mkv", <<"s">>, 1, TRUE), File("VF.E01.flac", << >>, 1, TRUE),
      File("VF.E05.mkv", << >>, 1, TRUE)}}

\* the top-down walks of the directories  .  ./s  ./s/u  ./t
WalkOrders ==
    {<< << >>, <<"s">>, <<"s", "u">>, <<"t">> >>,
     << << >>, <<"t">>, <<"s">>, <<"s", "u">> >>}

InitScan ==
    /\ \E ta \in TreesA, tb \in TreesB :
          /\ strees = [A |-> ta, B |-> tb]
          /\ stodo = [A |-> ta, B |-> tb]
    /\ \E oa \in WalkOrders :
          sorder = [A |-> oa, B |-> << << >>, <<"s">>, <<"s", "u">>, <<"t">> >>]
    /\ smap = [A |-> EmptyMap, B |-> EmptyMap]
    /\ srelax \in BOOLEAN
    /\ spairs = None
    /\ spc = "scanA"
    /\ ScanAlone

\* the directory os.walk is listing: the first of the walk with files left
CurrentDir(t) ==
    LET left == {i \in DOMAIN sorder[t] : \E f \in stodo[t] : f.dir = sorder[t][i]}
    IN  sorder[t][CHOOSE i \in left : \A j \in left : i <= j]

\* scan_dir_for_keys(dir, relax): the loop meets one more file
ScanVisit(t) ==
    /\ spc = "scan" \o t
    /\ \E file \in stodo[t] :
          /\ file.dir = CurrentDir(t)
          /\ smap' = [smap EXCEPT ![t] = ScanStep(t, smap[t], file, srelax)]
          /\ stodo' = [stodo EXCEPT ![t] = stodo[t] \ {file}]
    /\ UNCHANGED <<strees, sorder, srelax, spairs, spc>>
    /\ UNCHANGED scanRest

\* scan_dir_for_keys returns its mapping
ScanReturn(t) ==
    /\ spc = "scan" \o t
    /\ stodo[t] = {}
    /\ spc' = IF t = "A" THEN "scanB" ELSE "pair"
    /\ UNCHANGED <<strees, sorder, stodo, smap, srelax, spairs>>
    /\ UNCHANGED scanRest

\* build_pairs: the sorted intersection of the two mappings
BuildPairs ==
    /\ spc = "pair"
    /\ spairs' = Some(PairsOf(smap.A, smap.B))
    /\ spc' = "done"
    /\ UNCHANGED <<strees, sorder, stodo, smap, srelax>>
    /\ UNCHANGED scanRest

NextScan ==
    \/ ScanVisit("A")
    \/ ScanReturn("A")
    \/ ScanVisit("B")
    \/ ScanReturn("B")
    \/ BuildPairs

SpecScan == InitScan /\ [][NextScan]_vars

(***************************************************************************)
(* Claims about the pairing.                                               *)
(***************************************************************************)
\* the keys extracted from the media files of a tree
TreeKeys(tree) ==
    {Val(extract_episode_key(f.name, srelax)) :
        f \in {g \in tree : /\ IsMedia(g.name)
                            /\ extract_episode_key(g.name, srelax) # None}}

\* the media files of a tree that yield key k
FilesOfKey(tree, k) ==
    {f \in tree : /\ IsMedia(f.name)
                  /\ extract_episode_key(f.name, srelax) = Some(k)}

\* C5: the keys of the pair list returned by build_pairs / list_pairs are
\* the intersection of the keys extracted from each tree, each key once.
C5_PairKeysAreIntersection ==
    spc = "done" =>
        LET pairs == Val(spairs)
        IN  /\ {pairs[i][1] : i \in DOMAIN pairs}
                  = TreeKeys(strees.A) \cap TreeKeys(strees.B)
            /\ \A i, j \in DOMAIN pairs : pairs[i][1] = pairs[j][1] => i = j

C5_Witness ==
    /\ spc = "done"
    /\ Len(Val(spairs)) = 1
    /\ "E100" \in TreeKeys(strees.A) \ TreeKeys(strees.B)
    /\ "E05" \in TreeKeys(strees.B) \ TreeKeys(strees.A)

\* C8: once a tree is scanned, the file kept for a key is of minimal path
\* depth among the files of that key and, among those of minimal depth, of
\* the latest modification time (every stat succeeding).
C8_KeptIsShallowestThenNewest ==
    spc \in {"scanB", "pair", "done"} =>
        \A k \in DOMAIN smap.A :
            LET same == FilesOfKey(strees.A, k)
                kept == smap.A[k]
                shallow == {f \in same : \A g \in same : Len(f.dir) <= Len(g.dir)}
            IN  (\A f \in same : f.statOk) =>
                    /\ kept \in shallow
                    /\ \A f \in shallow : f.mtime <= kept.mtime

(***************************************************************************)
(* SpecFps: decide_speedfix applied to rates around the two windows.  The  *)
(* rates n/1000 lie within FpsSpread thousandths of the four window edges  *)
(* the documentation quotes; the exact film and PAL rates, 24 and 30000/   *)
(* 1001 fps and an unknown rate are added.                                 *)
(***************************************************************************)
FpsSpread == 2

WindowEdges == {23956, 23996, 24980, 25020}

FpsInputs ==
    {None}
    \cup {Some(<<e + d, 1000>>) : e \in WindowEdges, d \in (-FpsSpread)..FpsSpread}
    \cup {Some(<<24000, 1001>>), Some(<<25, 1>>), Some(<<24, 1>>),
          Some(<<30000, 1001>>)}

InitFps ==
    /\ fbase \in FpsInputs
    /\ fdonor \in FpsInputs
    /\ fno \in BOOLEAN
    /\ fres = None
    /\ fpc = "call"
    /\ FpsAlone

DecideSpeedfix ==
    /\ fpc = "call"
    /\ fres' = Some(decide_speedfix([fps |-> fbase], [fps |-> fdonor], fno))
    /\ fpc' = "ret"
    /\ UNCHANGED <<fbase, fdonor, fno>>
    /\ UNCHANGED fpsRest

NextFps == DecideSpeedfix

SpecFps == InitFps /\ [][NextFps]_vars

(***************************************************************************)
(* Claims about decide_speedfix.                                           *)
(***************************************************************************)
\* lo <= r <= hi for rationals r, and lo, hi given in thousandths
InThousandths(r, lo, hi) == lo * r[2] <= r[1] * 1000 /\ r[1] * 1000 <= hi * r[2]

\* C3 as stated: decide_speedfix returns true iff the base rate is in
\* [23.956, 23.996] and the donor rate in [24.98, 25.02], bounds included,
\* and false otherwise (either rate None included).
C3_Original ==
    fpc = "ret" =>
        (Val(fres) <=>
            /\ fbase # None /\ fdonor # None
            /\ InThousandths(Val(fbase), 23956, 23996)
            /\ InThousandths(Val(fdonor), 24980, 25020))

\* C3 amended: decide_speedfix returns true iff no_speedfix is false,
\* neither rate is None, the base rate is within 0.02 of 24000/1001, that
\* is in [1198999/50050, 1201001/50050] (about [23.956024, 23.996024]),
\* and the donor rate is in [24.98, 25.02]; false in every other case.
C3_SpeedfixIffWindows ==
    fpc = "ret" =>
        (Val(fres) <=>
            /\ ~fno
            /\ fbase # None /\ fdonor # None
            /\ 1198999 * Val(fbase)[2] <= 50050 * Val(fbase)[1]
            /\ 50050 * Val(fbase)[1] <= 1201001 * Val(fbase)[2]
            /\ InThousandths(Val(fdonor), 24980, 25020))

C3_Witness ==
    /\ fpc = "ret" /\ ~fno
    /\ fbase = Some(<<23996, 1000>>) /\ fdonor = Some(<<24980, 1000>>)
    /\ fres = Some(TRUE)

(***************************************************************************)
(* Spec: a run of the program.  Either the whole batch (mux_multi.main,    *)
(* muxage.processor.run_batch), run again on the same inputs when it has   *)
(* ended, or one episode function called on a job of its own.  ffprobe,    *)
(* ffmpeg and the file system answer as they please: a command returns 0   *)
(* or 1 and, where cfg.flaky allows it, a probe raises, a failed command   *)
(* leaves a partial file, exists() and unlink() raise.                     *)
(***************************************************************************)
MaxRuns == 2

OutDir == "out"

\* str(path) of a file of tree t
PathStr(t, file) == "/" \o Join(Tail(PathParts(t, file)), "/")

\* Path.name
PathName(path) ==
    LET slashes == {i \in 1..Len(path) : CharAt(path, i) = "/"}
    IN  IF slashes = {} THEN path
        ELSE SubSeq(path, 1 + CHOOSE i \in slashes : \A j \in slashes : j <= i, Len(path))

\* scan_dir_for_keys over a directory without subdirectories
RECURSIVE ScanFiles(_, _, _)
ScanFiles(t, files, relax) ==
    IF files = {} THEN EmptyMap
    ELSE LET last == CHOOSE f \in files : TRUE
         IN  ScanStep(t, ScanFiles(t, files \ {last}, relax), last, relax)

\* EpisodeJob(...) as mux_multi.main builds it from a pair
JobOfPair(c, pair) ==
    [key |-> pair[1],
     base_path |-> PathStr("A", pair[2]),
     donor_path |-> PathStr("B", pair[3]),
     out_path |-> derive_out_path(pair[2].name, OutDir),
     offset_ms |-> Get(c.offsets_map, pair[1], 0),
     dry_run |-> c.dry_run, force |-> c.force, no_speedfix |-> c.no_speedfix,
     export_vf_audio |-> c.export_vf_audio]

\* the locals of an episode function before its first statement
NoLocals ==
    [probes |-> 0, vo_jpn_idx |-> None, fr_idx |-> None, will_speedfix |-> FALSE,
     channels |-> 2, out_existed |-> None, use_preproc |-> FALSE,
     tmp_audio_path |-> None, rc |-> 0]

\* JobResult(key=, success=False, message=): message is the kind of the
\* text, "no_vo", "no_fr", "exists", "preproc_failed", "mux_failed", "error"
Failure(key, message) ==
    [key |-> key, success |-> FALSE, message |-> message,
     ffmpeg_mux_cmd |-> None, ffmpeg_preproc_cmd |-> None,
     chosen_fr_stream_index |-> None, vo_jpn_stream_index |-> None,
     speedfix_applied |-> FALSE, offset_applied_ms |-> 0, output_path |-> None]

\* the JobResult after the mux command has run
Outcome(job, loc, success, mux_cmd, preproc_cmd) ==
    [key |-> job.key, success |-> success,
     message |-> IF success THEN "ok" ELSE "mux_failed",
     ffmpeg_mux_cmd |-> Some(mux_cmd), ffmpeg_preproc_cmd |-> preproc_cmd,
     chosen_fr_stream_index |-> loc.fr_idx, vo_jpn_stream_index |-> loc.vo_jpn_idx,
     speedfix_applied |-> loc.will_speedfix, offset_applied_ms |-> job.offset_ms,
     output_path |-> IF success THEN Some(job.out_path) ELSE None]

JobOf(k) == rjobs[CHOOSE i \in DOMAIN rjobs : rjobs[i].key = k]

Probe(path) == parse_media_streams(Streams(cfg.media[path]))

\* the VOSTFR and the VF file of a job: base and donor by direction
VostfrPath(job) ==
    IF cfg.direction = "vostfr_to_vf" THEN job.donor_path ELSE job.base_path

VfPath(job) ==
    IF cfg.direction = "vostfr_to_vf" THEN job.base_path ELSE job.donor_path

\* the stream of the donor that is preprocessed
DonorIndex(loc) ==
    IF cfg.direction = "vostfr_to_vf" THEN Val(loc.vo_jpn_idx) ELSE Val(loc.fr_idx)

\* the preprocessing command of an episode
PreprocCmdOf(job, loc) ==
    PreprocCommand(job.donor_path, DonorIndex(loc), TempPath(cfg.prog, OutDir, job.key),
                   job.offset_ms, loc.will_speedfix, loc.channels)

\* the last preprocessing command the episode ran, None if it ran none
PreprocCmdRun(k) ==
    IF \E i \in DOMAIN ecalls[k] : ecalls[k][i].op = "preproc"
    THEN Some(ecalls[k][CHOOSE i \in DOMAIN ecalls[k] : ecalls[k][i].op = "preproc"].cmd)
    ELSE None

\* the mux command of an episode: the donor input is the temporary file
\* when the audio was preprocessed
MuxCmdOf(job, loc) ==
    LET donor_audio == IF loc.use_preproc THEN Val(loc.tmp_audio_path) ELSE job.donor_path
        vostfr_ms == Probe(VostfrPath(job))
        vf_ms == Probe(VfPath(job))
    IN  IF cfg.prog = "mux_multi"
        THEN build_mux_command(job.base_path, donor_audio, loc.use_preproc,
                 Val(loc.vo_jpn_idx), IF loc.use_preproc THEN None ELSE loc.fr_idx,
                 vostfr_ms, job.out_path, first_fr_subtitle_index(vostfr_ms))
        ELSE IF cfg.direction = "vf_to_vostfr"
        THEN build_mux_command_vf_to_vostfr(job.base_path, donor_audio, loc.use_preproc,
                 Val(loc.vo_jpn_idx), IF loc.use_preproc THEN None ELSE loc.fr_idx,
                 vostfr_ms, vf_ms, job.out_path, FALSE)
        ELSE build_mux_command_vostfr_to_vf(job.base_path, donor_audio, loc.use_preproc,
                 IF loc.use_preproc THEN None ELSE loc.vo_jpn_idx, loc.fr_idx,
                 vostfr_ms, job.out_path, FALSE)

\* derive_export_audio_path, export_audio_dir being None
ExportPath(job) == OutDir \o "/" \o Stem(PathName(job.base_path)) \o ".VF.flac"

ExportCmdOf(job, loc) ==
    <<"ffmpeg", "-y", "-v", "error", "-i", job.donor_path,
      "-map", "0:" \o ToString(Val(loc.fr_idx)), "-vn", "-sn", "-c:a", "flac",
      ExportPath(job)>>

\* run_subprocess(cmd, dry_run): the exit codes it can return
ExitCodes(dry_run) == IF dry_run THEN {0} ELSE {0, 1}

\* the files after a command that writes path has returned rc; left says
\* whether a failed command left a partial file behind
FilesAfter(files, path, what, key, dry_run, rc, left) ==
    IF dry_run THEN files
    ELSE IF rc = 0 THEN (path :> (what \o ":" \o key)) @@ files
    ELSE IF left THEN (path :> ("partial:" \o key)) @@ files
    ELSE files

\* whether a failed command can leave a partial file
Leftovers == IF cfg.flaky THEN BOOLEAN ELSE {FALSE}

\* the record of a call of run_subprocess
Call(op, cmd, job) ==
    [op |-> op, cmd |-> cmd, started |-> ~job.dry_run,
     out_existed |-> job.out_path \in DOMAIN fs]

\* an output that exists is overwritten whatever force says
OutputBlocksNever(exists, force) == FALSE

\* out_path.exists() and not job.force
OutputBlocks(exists, force) == exists /\ ~force

\* a pool that never has less than two workers
MaxWorkersTwo == IF cfg.workers >= 2 THEN cfg.workers ELSE 2

\* max_workers of the pool
MaxWorkers == IF cfg.workers >= 1 THEN cfg.workers ELSE 1

\* a worker that returned a failure is never free again
InFlightKeepsFailed ==
    {k \in DOMAIN epc : \/ epc[k] \notin {"new", "queued", "done"}
                        \/ epc[k] = "done" /\ ~Val(eres[k]).success}

\* the episodes a worker of the pool is running
InFlight == {k \in DOMAIN epc : epc[k] \notin {"new", "queued", "done"}}

(***************************************************************************)
(* The invocations.                                                        *)
(***************************************************************************)
\* the programs and their episode functions: mux_multi.process_episode,
\* muxage's process_episode_vf_to_vostfr and process_episode_vostfr_to_vf
Programs ==
    {[prog |-> "mux_multi", direction |-> "vf_to_vostfr"],
     [prog |-> "muxage", direction |-> "vf_to_vostfr"],
     [prog |-> "muxage", direction |-> "vostfr_to_vf"]}

Offsets == {-1500, -150, 0, 150}

\* one episode function called on a job for key E07
CallConfigs ==
    {[prog |-> pd.prog, entry |-> "call", direction |-> pd.direction,
      dirs |-> "none",
      media |-> IF pd.direction = "vostfr_to_vf"
                THEN ("/in/A/Show.E07.mkv" :> vf) @@ ("/in/B/Show.E07.mkv" :> vostfr)
                ELSE ("/in/A/Show.E07.mkv" :> vostfr) @@ ("/in/B/Show.E07.mkv" :> vf),
      offsets_map |-> ("E07" :> o), workers |-> 1, force |-> force,
      dry_run |-> dry_run, no_speedfix |-> no_speedfix, relax_extract |-> FALSE,
      export_vf_audio |-> FALSE, default_vf |-> FALSE, tools |-> TRUE, flaky |-> TRUE] :
        pd \in Programs,
        vostfr \in {"VostfrGood", "VostfrInterleaved", "VostfrBare", "VostfrEngSub",
                    "VostfrNoJpn"},
        vf \in {"VfPal", "VfFilm", "VfAudioOnly", "VfNoFr"},
        o \in Offsets, force \in BOOLEAN, dry_run \in BOOLEAN, no_speedfix \in BOOLEAN}

\* process_episode_vf_to_vostfr on a job that asks for the VF audio export
ExportConfigs ==
    {[c EXCEPT !.export_vf_audio = TRUE] :
        c \in {d \in CallConfigs : /\ d.prog = "muxage" /\ d.direction = "vf_to_vostfr"
                                   /\ d.media["/in/A/Show.E07.mkv"] = "VostfrGood"
                                   /\ d.media["/in/B/Show.E07.mkv"] \in {"VfPal", "VfFilm"}
                                   /\ d.offsets_map["E07"] \in {0, 150}
                                   /\ ~d.no_speedfix}}

CallJob(c) ==
    [key |-> "E07", base_path |-> "/in/A/Show.E07.mkv",
     donor_path |-> "/in/B/Show.E07.mkv", out_path |-> OutDir \o "/Show.E07.MULTi.mkv",
     offset_ms |-> c.offsets_map["E07"], dry_run |-> c.dry_run, force |-> c.force,
     no_speedfix |-> c.no_speedfix, export_vf_audio |-> c.export_vf_audio]

\* the directories, by the name cfg.dirs gives them: in "BatchDirs" E01 and
\* E02 are on both sides and E03 on one, in "LongKeyDirs" E100 and E99 are
\* on both sides, in "LonelyDirs" no key is on both
Dirs(name) ==
    IF name = "BatchDirs"
    THEN [A |-> {File("Show.E01.mkv", << >>, 1, TRUE), File("Show.E02.mkv", << >>, 1, TRUE),
                 File("Show.E03.mkv", << >>, 1, TRUE), File("notes.E01.txt", << >>, 1, TRUE)},
          B |-> {File("Show.E01.VF.mkv", << >>, 1, TRUE),
                 File("Show.E02.VF.mkv", << >>, 1, TRUE)}]
    ELSE IF name = "LongKeyDirs"
    THEN [A |-> {File("Show.E100.mkv", << >>, 1, TRUE), File("Show.E99.mkv", << >>, 1, TRUE)},
          B |-> {File("Show.E99.VF.mkv", << >>, 1, TRUE),
                 File("Show.E100.VF.mkv", << >>, 1, TRUE)}]
    ELSE [A |-> {File("Show.E03.mkv", << >>, 1, TRUE)},
          B |-> {File("Show.E01.VF.mkv", << >>, 1, TRUE)}]

BatchMedia(second) ==
    ("/in/A/Show.E01.mkv" :> "VostfrGood") @@ ("/in/B/Show.E01.VF.mkv" :> "VfPal")
    @@ ("/in/A/Show.E02.mkv" :> second) @@ ("/in/B/Show.E02.VF.mkv" :> "VfFilm")
    @@ ("/in/A/Show.E03.mkv" :> "VostfrGood")
    @@ ("/in/A/Show.E99.mkv" :> "VostfrGood") @@ ("/in/B/Show.E99.VF.mkv" :> "VfPal")
    @@ ("/in/A/Show.E100.mkv" :> "VostfrGood") @@ ("/in/B/Show.E100.VF.mkv" :> "VfPal")

\* the whole batch, from the command line
BatchConfigs ==
    {[prog |-> pd.prog, entry |-> "batch", direction |-> pd.direction,
      dirs |-> "BatchDirs", media |-> BatchMedia(second),
      offsets_map |-> offsets_map, workers |-> workers, force |-> force,
      dry_run |-> dry_run, no_speedfix |-> FALSE, relax_extract |-> FALSE,
      export_vf_audio |-> FALSE, default_vf |-> FALSE, tools |-> TRUE, flaky |-> FALSE] :
        pd \in Programs, second \in {"VostfrInterleaved", "VostfrNoJpn"},
        offsets_map \in {EmptyMap, ("E02" :> 150)}, workers \in {0, 2},
        force \in BOOLEAN, dry_run \in BOOLEAN}

\* the plainest of the batches
PlainConfigs ==
    {d \in BatchConfigs : /\ ~d.force /\ ~d.dry_run /\ d.workers = 2
                          /\ d.offsets_map = EmptyMap
                          /\ d.media["/in/A/Show.E02.mkv"] = "VostfrInterleaved"}

\* a batch without tools, a batch without pairs, a batch over keys of two
\* lengths, a batch with --workers -1
EdgeConfigs ==
    {[c EXCEPT !.tools = tools, !.dirs = dirs, !.workers = workers] :
        c \in PlainConfigs, tools \in BOOLEAN,
        dirs \in {"BatchDirs", "LongKeyDirs", "LonelyDirs"},
        workers \in {-1, 2}}

\* a batch in which probes, exists() and unlink() can raise
FlakyConfigs == {[c EXCEPT !.flaky = TRUE] : c \in PlainConfigs}

\* default_vf=True, the French audio asked as the default one: run_batch
\* takes the parameter, EpisodeJob has no field for it, so the jobs of the
\* episode functions are the same as without it
DefaultVfConfigs ==
    {[c EXCEPT !.default_vf = TRUE] :
        c \in {d \in CallConfigs \cup PlainConfigs :
                  /\ d.prog = "muxage" /\ ~d.force /\ ~d.dry_run /\ ~d.no_speedfix
                  /\ d.entry = "call" =>
                        /\ d.media["/in/A/Show.E07.mkv"] \in {"VostfrGood", "VfFilm"}
                        /\ d.media["/in/B/Show.E07.mkv"] \in {"VostfrGood", "VfFilm"}
                        /\ d.offsets_map["E07"] \in {0, 150}}}

Configs ==
    CallConfigs \cup ExportConfigs \cup BatchConfigs \cup EdgeConfigs \cup FlakyConfigs
        \cup DefaultVfConfigs

\* the outputs that can be there before the first run
OldOutputs(c) ==
    IF c.entry = "call"
    THEN {EmptyMap, (OutDir \o "/Show.E07.MULTi.mkv") :> "old"}
    ELSE {EmptyMap, (OutDir \o "/Show.E01.MULTi.mkv") :> "old"}

Init ==
    /\ cfg \in Configs
    /\ rrun = 1
    /\ rpc = IF cfg.entry = "call" THEN "call" ELSE "deps"
    /\ rpairs = None
    /\ rjobs = IF cfg.entry = "call" THEN <<CallJob(cfg)>> ELSE << >>
    /\ rqueue = << >>
    /\ rresults = << >>
    /\ rexit = None
    /\ epc = IF cfg.entry = "call" THEN ("E07" :> "inspect") ELSE EmptyMap
    /\ eloc = IF cfg.entry = "call" THEN ("E07" :> NoLocals) ELSE EmptyMap
    /\ ecalls = IF cfg.entry = "call" THEN ("E07" :> << >>) ELSE EmptyMap
    /\ eres = IF cfg.entry = "call" THEN ("E07" :> None) ELSE EmptyMap
    /\ fs \in OldOutputs(cfg)
    /\ fs0 = fs
    /\ RunAlone

(***************************************************************************)
(* The episode functions, one action for each stretch between two calls    *)
(* of the outside world.                                                   *)
(***************************************************************************)
batchVars == <<cfg, rrun, rpc, rpairs, rjobs, rqueue, rresults, rexit, fs0>>

\* return res
Finish(k, res) ==
    /\ epc' = [epc EXCEPT ![k] = "done"]
    /\ eres' = [eres EXCEPT ![k] = Some(res)]

Goto(k, pc) ==
    /\ epc' = [epc EXCEPT ![k] = pc]
    /\ UNCHANGED eres

\* both files are probed and parsed, the two audio streams selected, the
\* speed correction decided
EpInspect(k) ==
    /\ epc[k] = "inspect"
    /\ \E failing \in IF cfg.flaky THEN 0..2 ELSE {0} :
          IF failing # 0
          THEN /\ eloc' = [eloc EXCEPT ![k].probes = failing]
               /\ Finish(k, Failure(k, "error"))      \* ffprobe_json raises
          ELSE LET job == JobOf(k)
                   base_ms == Probe(job.base_path)
                   donor_ms == Probe(job.donor_path)
                   vo == find_first_jpn_audio_index(Probe(VostfrPath(job)))
                   fr == IF vo = None THEN None
                         ELSE select_fr_audio_stream(Probe(VfPath(job)))
                   both == vo # None /\ fr # None
                   donor_idx == IF cfg.direction = "vostfr_to_vf" THEN vo ELSE fr
               IN  /\ eloc' = [eloc EXCEPT ![k] =
                         [@ EXCEPT !.probes = 2, !.vo_jpn_idx = vo, !.fr_idx = fr,
                            !.will_speedfix =
                                both /\ decide_speedfix(base_ms, donor_ms, job.no_speedfix),
                            !.channels =
                                IF both THEN Get(donor_ms.audio_channels, Val(donor_idx), 2)
                                ELSE 2]]
                   /\ IF vo = None THEN Finish(k, Failure(k, "no_vo"))
                      ELSE IF fr = None THEN Finish(k, Failure(k, "no_fr"))
                      ELSE Goto(k, "check")
    /\ UNCHANGED <<ecalls, fs>>
    /\ UNCHANGED batchVars
    /\ UNCHANGED runRest

\* a preprocessing for the speed correction only
UsePreprocSpeedOnly(will_speedfix, offset_ms) == will_speedfix

\* use_preproc = will_speedfix or (offset_ms != 0); in muxage also
\* getattr(job, "force_audio_preproc", False), an attribute no job has
UsePreproc(will_speedfix, offset_ms) == will_speedfix \/ offset_ms # 0

\* out_path.exists() and not job.force; then use_preproc
EpCheckOutput(k) ==
    /\ epc[k] = "check"
    /\ \E raises \in IF cfg.flaky THEN BOOLEAN ELSE {FALSE} :
          IF raises
          THEN /\ Finish(k, Failure(k, "error"))      \* exists() raises OSError
               /\ UNCHANGED eloc
          ELSE LET job == JobOf(k)
                   exists == job.out_path \in DOMAIN fs
                   use_preproc == UsePreproc(eloc[k].will_speedfix, job.offset_ms)
               IN  IF OutputBlocks(exists, job.force)
                   THEN /\ eloc' = [eloc EXCEPT ![k].out_existed = Some(exists)]
                        /\ Finish(k, Failure(k, "exists"))
                   ELSE /\ eloc' = [eloc EXCEPT ![k].out_existed = Some(exists),
                                                ![k].use_preproc = use_preproc]
                        /\ Goto(k, IF use_preproc THEN "preproc" ELSE "mux")
    /\ UNCHANGED <<ecalls, fs>>
    /\ UNCHANGED batchVars
    /\ UNCHANGED runRest

\* preproc_audio_to_temp_flac / preproc_vf_audio_to_temp_flac
EpPreproc(k) ==
    /\ epc[k] = "preproc"
    /\ LET job == JobOf(k)
           cmd == PreprocCmdOf(job, eloc[k])
           temp_out == TempPath(cfg.prog, OutDir, k)
       IN  \E rc \in ExitCodes(job.dry_run), left \in Leftovers :
              /\ ecalls' = [ecalls EXCEPT ![k] = Append(@, Call("preproc", cmd, job))]
              /\ fs' = FilesAfter(fs, temp_out, "preproc", k, job.dry_run, rc, left)
              /\ IF rc # 0
                 THEN /\ Finish(k, [Failure(k, "preproc_failed")
                                       EXCEPT !.ffmpeg_preproc_cmd = Some(cmd)])
                      /\ UNCHANGED eloc
                 ELSE /\ eloc' = [eloc EXCEPT ![k].tmp_audio_path = Some(temp_out)]
                      /\ Goto(k, "mux")
    /\ UNCHANGED batchVars
    /\ UNCHANGED runRest

\* the mux command is built and run
EpMux(k) ==
    /\ epc[k] = "mux"
    /\ LET job == JobOf(k)
           loc == eloc[k]
           mux_cmd == MuxCmdOf(job, loc)
       IN  \E rc \in ExitCodes(job.dry_run), left \in Leftovers :
              /\ ecalls' = [ecalls EXCEPT ![k] = Append(@, Call("mux", mux_cmd, job))]
              /\ fs' = FilesAfter(fs, job.out_path, "mux", k, job.dry_run, rc, left)
              /\ eloc' = [eloc EXCEPT ![k].rc = rc]
              /\ IF cfg.prog = "mux_multi" /\ loc.use_preproc /\ loc.tmp_audio_path # None
                 THEN Goto(k, "cleanup")
                 ELSE IF rc # 0
                 THEN Finish(k, Outcome(job, loc, FALSE, mux_cmd, PreprocCmdRun(k)))
                 ELSE IF cfg.prog = "muxage" /\ cfg.direction = "vf_to_vostfr"
                         /\ job.export_vf_audio
                 THEN Goto(k, "export")
                 ELSE Finish(k, Outcome(job, loc, TRUE, mux_cmd, PreprocCmdRun(k)))
    /\ UNCHANGED batchVars
    /\ UNCHANGED runRest

\* mux_multi: tmp_audio_path.exists() and not job.dry_run, then unlink()
\* inside try/except; exists() is outside of it
EpCleanup(k) ==
    /\ epc[k] = "cleanup"
    /\ LET job == JobOf(k)
           loc == eloc[k]
           tmp == Val(loc.tmp_audio_path)
       IN  \E outcome \in IF cfg.flaky THEN {"ok", "exists_raises", "unlink_raises"}
                            ELSE {"ok"} :
              IF outcome = "exists_raises"
              THEN /\ Finish(k, Failure(k, "error"))
                   /\ UNCHANGED fs
              ELSE /\ fs' = IF tmp \in DOMAIN fs /\ ~job.dry_run /\ outcome = "ok"
                            THEN [q \in DOMAIN fs \ {tmp} |-> fs[q]]
                            ELSE fs
                   /\ Finish(k, Outcome(job, loc, loc.rc = 0, MuxCmdOf(job, loc),
                                        PreprocCmdRun(k)))
    /\ UNCHANGED <<eloc, ecalls>>
    /\ UNCHANGED batchVars
    /\ UNCHANGED runRest

\* process_episode_vf_to_vostfr: the standalone VF audio
EpExport(k) ==
    /\ epc[k] = "export"
    /\ LET job == JobOf(k)
           loc == eloc[k]
           path == ExportPath(job)
           done == Outcome(job, loc, TRUE, MuxCmdOf(job, loc), PreprocCmdRun(k))
       IN  IF path \in DOMAIN fs /\ ~job.force
           THEN Finish(k, done) /\ UNCHANGED <<fs, ecalls>>
           ELSE IF loc.use_preproc /\ loc.tmp_audio_path # None
           THEN /\ UNCHANGED ecalls
                /\ IF job.dry_run THEN Finish(k, done) /\ UNCHANGED fs
                   ELSE IF Val(loc.tmp_audio_path) \in DOMAIN fs
                   THEN /\ fs' = (path :> fs[Val(loc.tmp_audio_path)]) @@ fs
                        /\ Finish(k, done)
                   ELSE Finish(k, Failure(k, "error")) /\ UNCHANGED fs
           ELSE \E rc \in ExitCodes(job.dry_run), left \in Leftovers :
                   /\ ecalls' = [ecalls EXCEPT
                                    ![k] = Append(@, Call("export", ExportCmdOf(job, loc), job))]
                   /\ fs' = FilesAfter(fs, path, "export", k, job.dry_run, rc, left)
                   /\ Finish(k, done)
    /\ UNCHANGED eloc
    /\ UNCHANGED batchVars
    /\ UNCHANGED runRest

(***************************************************************************)
(* The batch: mux_multi.main and muxage.processor.run_batch.               *)
(***************************************************************************)
episodeVars == <<epc, eloc, ecalls, eres>>

\* a check that lets a missing tool pass
check_dependencies_lenient(tools) == None

\* check_dependencies: sys.exit(2) when ffmpeg or ffprobe is missing, tools
\* telling whether both answer "-version"; None when it returns
check_dependencies(tools) == IF tools THEN None ELSE Some(2)

\* the first statement of the batch
BatchCheckDeps ==
    /\ rpc = "deps"
    /\ IF check_dependencies(cfg.tools) = None
       THEN rpc' = "pairs" /\ UNCHANGED rexit
       ELSE rpc' = "exit" /\ rexit' = check_dependencies(cfg.tools)
    /\ UNCHANGED <<cfg, rrun, rpairs, rjobs, rqueue, rresults, fs0, fs>>
    /\ UNCHANGED episodeVars
    /\ UNCHANGED runRest

\* list_pairs / build_pairs; exit code 1 when there is no pair
BatchPairs ==
    /\ rpc = "pairs"
    /\ LET pairs == PairsOf(ScanFiles("A", Dirs(cfg.dirs).A, cfg.relax_extract),
                            ScanFiles("B", Dirs(cfg.dirs).B, cfg.relax_extract))
       IN  /\ rpairs' = Some(pairs)
           /\ IF pairs = << >>
              THEN rpc' = "exit" /\ rexit' = Some(1)
              ELSE rpc' = "jobs" /\ UNCHANGED rexit
    /\ UNCHANGED <<cfg, rrun, rjobs, rqueue, rresults, fs0, fs>>
    /\ UNCHANGED episodeVars
    /\ UNCHANGED runRest

\* the jobs are built.  run_batch gives EpisodeJob a force_audio_preproc
\* argument the class does not have: TypeError on the first pair
BatchJobs ==
    /\ rpc = "jobs"
    /\ IF cfg.prog = "muxage"
       THEN /\ rpc' = "raised"
            /\ UNCHANGED <<rjobs, epc, eloc, ecalls, eres>>
       ELSE /\ rjobs' = [i \in DOMAIN Val(rpairs) |-> JobOfPair(cfg, Val(rpairs)[i])]
            /\ epc' = [k \in {Val(rpairs)[i][1] : i \in DOMAIN Val(rpairs)} |-> "new"]
            /\ eloc' = [k \in DOMAIN epc' |-> NoLocals]
            /\ ecalls' = [k \in DOMAIN epc' |-> << >>]
            /\ eres' = [k \in DOMAIN epc' |-> None]
            /\ rpc' = "submit"
    /\ UNCHANGED <<cfg, rrun, rpairs, rqueue, rresults, rexit, fs0, fs>>
    /\ UNCHANGED runRest

\* executor.submit of the next job of the list
BatchSubmit ==
    /\ rpc = "submit"
    /\ LET n == Cardinality({k \in DOMAIN epc : epc[k] # "new"})
           k == rjobs[n + 1].key
       IN  /\ epc' = [epc EXCEPT ![k] = "queued"]
           /\ rqueue' = Append(rqueue, k)
           /\ rpc' = IF n + 1 = Len(rjobs) THEN "collect" ELSE "submit"
    /\ UNCHANGED <<cfg, rrun, rpairs, rjobs, rresults, rexit, fs0, fs>>
    /\ UNCHANGED <<eloc, ecalls, eres>>
    /\ UNCHANGED runRest

\* a worker thread of the pool takes the oldest job of the queue
EpStart(k) ==
    /\ rqueue # << >>
    /\ k = Head(rqueue)
    /\ Cardinality(InFlight) < MaxWorkers
    /\ rqueue' = Tail(rqueue)
    /\ epc' = [epc EXCEPT ![k] = "inspect"]
    /\ UNCHANGED <<cfg, rrun, rpc, rpairs, rjobs, rresults, rexit, fs0, fs>>
    /\ UNCHANGED <<eloc, ecalls, eres>>
    /\ UNCHANGED runRest

\* as_completed yields a finished future; its result joins the list
BatchCollect(k) ==
    /\ rpc = "collect"
    /\ epc[k] = "done"
    /\ k \notin Range(rresults)
    /\ rresults' = Append(rresults, k)
    /\ UNCHANGED <<cfg, rrun, rpc, rpairs, rjobs, rqueue, rexit, fs0, fs>>
    /\ UNCHANGED episodeVars
    /\ UNCHANGED runRest

\* a batch that always reports success
ExitCodeZero(fail) == 0

\* 0 if fail == 0 else 1
ExitCode(fail) == IF fail = 0 THEN 0 ELSE 1

\* the summary and the exit code
BatchSummary ==
    /\ rpc = "collect"
    /\ Len(rresults) = Len(rjobs)
    /\ LET ok == Cardinality({i \in DOMAIN rresults : Val(eres[rresults[i]]).success})
           fail == Len(rresults) - ok
       IN  rexit' = Some(ExitCode(fail))
    /\ rpc' = "exit"
    /\ UNCHANGED <<cfg, rrun, rpairs, rjobs, rqueue, rresults, fs0, fs>>
    /\ UNCHANGED episodeVars
    /\ UNCHANGED runRest

\* the same command line is run again on what the run before left
Rerun ==
    /\ cfg.entry = "batch"
    /\ rpc \in {"exit", "raised"}
    /\ rrun < MaxRuns
    /\ rrun' = rrun + 1
    /\ rpc' = "deps"
    /\ rpairs' = None /\ rjobs' = << >> /\ rqueue' = << >> /\ rresults' = << >>
    /\ rexit' = None
    /\ epc' = EmptyMap /\ eloc' = EmptyMap /\ ecalls' = EmptyMap /\ eres' = EmptyMap
    /\ fs0' = fs
    /\ UNCHANGED <<cfg, fs>>
    /\ UNCHANGED runRest

Next ==
    \/ BatchCheckDeps
    \/ BatchPairs
    \/ BatchJobs
    \/ BatchSubmit
    \/ BatchSummary
    \/ Rerun
    \/ \E k \in DOMAIN epc :
          \/ EpStart(k)
          \/ EpInspect(k)
          \/ EpCheckOutput(k)
          \/ EpPreproc(k)
          \/ EpMux(k)
          \/ EpCleanup(k)
          \/ EpExport(k)
          \/ BatchCollect(k)

Spec == Init /\ [][Next]_vars

\* the keys of the episodes of the configurations
EpisodeKeys == {"E01", "E02", "E07", "E99", "E100"}

\* the positions where an episode function waits for ffprobe, ffmpeg or the
\* file system
InBackend == {"inspect", "check", "preproc", "mux", "cleanup", "export"}

\* the step an episode function takes when the call it waits for returns
EpStep(k) ==
    \/ EpInspect(k)
    \/ EpCheckOutput(k)
    \/ EpPreproc(k)
    \/ EpMux(k)
    \/ EpCleanup(k)
    \/ EpExport(k)

\* every backend call returns in the end: an episode function does not wait
\* in a call for ever.  This is weak fairness of EpStep(k), its enabling
\* condition written as the position of the episode: at each position of
\* InBackend the step of that position is enabled
BackendsReturn ==
    \A k \in EpisodeKeys :
        \/ []<>(k \notin DOMAIN epc \/ epc[k] \notin InBackend)
        \/ []<><<EpStep(k)>>_vars

\* ThreadPoolExecutor: a free worker takes the oldest queued job; the
\* calls the episode functions make return
FairSpec == Spec /\ WF_vars(\E k \in DOMAIN epc : EpStart(k)) /\ BackendsReturn

(***************************************************************************)
(* Properties of the commands an episode runs.                             *)
(***************************************************************************)
\* the calls of one operation an episode has made, as a set of records
CallsOf(k, op) == {ecalls[k][i] : i \in {j \in DOMAIN ecalls[k] : ecalls[k][j].op = op}}

\* the input files of a command, in the order of their "-i"
Inputs(cmd) == OptionValues(cmd, "-i")

\* the "-map" selectors that pass all subtitles or all attachments through
Passthrough(cmd) ==
    {v \in Range(OptionValues(cmd, "-map")) : Len(v) = 4 /\ SubSeq(v, 2, 4) \in {":s?", ":t?"}}

\* the file a selector "n:..." reads, n being one digit
InputOf(cmd, selector) ==
    Inputs(cmd)[1 + CHOOSE n \in 0..9 : ToString(n) = SubSeq(selector, 1, 1)]

\* C2: in every mux command an episode runs, in both directions and with or
\* without preprocessing, the selectors that pass subtitles and attachments
\* through read the input that is the VOSTFR file of the job.
C2_PassthroughFromVostfr ==
    \A k \in DOMAIN ecalls : \A c \in CallsOf(k, "mux") :
        /\ Passthrough(c.cmd) # {}
        /\ \A v \in Passthrough(c.cmd) : InputOf(c.cmd, v) = VostfrPath(JobOf(k))

\* what "atrim=start=" is to say for the negative offsets of Offsets
TrimSeconds == (-1500 :> "1.5") @@ (-150 :> "0.15")

Atempo == "atempo=0.95904"

\* a delay of o milliseconds on each of n channels
Delay(o, n) == "adelay=" \o Join([i \in 1..n |-> ToString(o)], "|")

\* C4: the filter chain of every preprocessing command is, for offset o > 0,
\* a delay of o ms on every channel and no trim; for o < 0, a trim of the
\* first |o|/1000 seconds then a rebase of the timestamps and no delay; for
\* o = 0 neither (the speed correction only).  The command reads the donor
\* file only, and one of its audio streams; the mux command filters nothing
\* and reads the base file itself as its first input.
C4_OffsetFilterOnDonorOnly ==
    \A k \in DOMAIN ecalls :
        LET job == JobOf(k)
            o == job.offset_ms
        IN  /\ \A c \in CallsOf(k, "preproc") :
                  LET af == OptionValues(c.cmd, "-af")
                  IN  /\ Inputs(c.cmd) = <<job.donor_path>>
                      /\ \E idx \in Range(Probe(job.donor_path).audio_indices) :
                            OptionValues(c.cmd, "-map") = <<"0:" \o ToString(idx)>>
                      /\ Len(af) = 1
                      /\ o > 0 => \E n \in 1..8 :
                                     af[1] \in {Delay(o, n), Delay(o, n) \o "," \o Atempo}
                      /\ o < 0 => LET trim == "atrim=start=" \o TrimSeconds[o]
                                               \o ",asetpts=PTS-STARTPTS"
                                  IN  af[1] \in {trim, trim \o "," \o Atempo}
                      /\ o = 0 => af[1] = Atempo
            /\ \A c \in CallsOf(k, "mux") :
                  /\ Inputs(c.cmd)[1] = job.base_path
                  /\ \A i \in DOMAIN c.cmd :
                        c.cmd[i] \notin {"-af", "-filter:a", "-filter_complex", "-itsoffset"}

C4_Witness ==
    \E k \in DOMAIN ecalls :
        /\ JobOf(k).offset_ms = -1500
        /\ cfg.prog = "muxage" /\ cfg.direction = "vf_to_vostfr"
        /\ \E c \in CallsOf(k, "preproc") :
              OptionValues(c.cmd, "-af")
                  = <<"atrim=start=1.5,asetpts=PTS-STARTPTS,atempo=0.95904">>
        /\ CallsOf(k, "mux") # {}
        /\ epc[k] = "done" /\ Val(eres[k]).success

\* the file at path is what it was when the run started
Untouched(path) ==
    /\ path \in DOMAIN fs <=> path \in DOMAIN fs0
    /\ path \in DOMAIN fs => fs[path] = fs0[path]

\* C9: an episode that finds its output path existing while force is off
\* ends with a failure result, has given no command to the execution
\* backend, has created no temporary file and leaves the output as it was.
C9_ExistingOutputIsLeftAlone ==
    \A k \in DOMAIN epc :
        (eloc[k].out_existed = Some(TRUE) /\ ~JobOf(k).force) =>
            /\ epc[k] = "done"
            /\ ~Val(eres[k]).success /\ Val(eres[k]).message = "exists"
            /\ ecalls[k] = << >>
            /\ Untouched(TempPath(cfg.prog, OutDir, k))
            /\ JobOf(k).out_path \in DOMAIN fs
            /\ Untouched(JobOf(k).out_path)

C9_Witness ==
    \E k \in DOMAIN epc :
        /\ cfg.prog = "muxage" /\ cfg.direction = "vostfr_to_vf"
        /\ JobOf(k).offset_ms = 150 /\ ~JobOf(k).force /\ ~JobOf(k).dry_run
        /\ eloc[k].out_existed = Some(TRUE)
        /\ epc[k] = "done" /\ Val(eres[k]).message = "exists"
        /\ fs[JobOf(k).out_path] = "old"

\* C10: in a second run of the batch on the same inputs, force and dry-run
\* off, no mux command is run against an output that exists, every episode
\* whose output was there when the run started is reported as a failure,
\* and the run does not raise: it ends with an exit code of 0 or 1 and one
\* result for each pair.
C10_SecondRunSparesOutputs ==
    (cfg.entry = "batch" /\ rrun >= 2 /\ ~cfg.force /\ ~cfg.dry_run) =>
        /\ rpc # "raised"
        /\ \A k \in DOMAIN ecalls : \A c \in CallsOf(k, "mux") : ~c.out_existed
        /\ \A k \in DOMAIN eres :
              (eres[k] # None /\ JobOf(k).out_path \in DOMAIN fs0) => ~Val(eres[k]).success
        /\ (rpc = "exit" /\ cfg.tools /\ rpairs # None /\ Val(rpairs) # << >>) =>
              /\ rexit \in {Some(0), Some(1)}
              /\ Len(rresults) = Len(Val(rpairs))

(***************************************************************************)
(* Properties of the pool.                                                 *)
(***************************************************************************)
\* C11: at every moment of a batch the number of episodes started and not
\* finished is at most max(1, workers); with workers at 0 or below it is at
\* most 1.
C11_InFlightBounded ==
    cfg.entry = "batch" =>
        Cardinality({k \in DOMAIN epc : epc[k] \notin {"new", "queued", "done"}})
            <= (IF cfg.workers > 1 THEN cfg.workers ELSE 1)

\* a job waits in the queue of a pool asked for no worker, behind the one
\* episode that runs
C11_Witness ==
    /\ cfg.entry = "batch" /\ cfg.workers <= 0
    /\ rqueue # << >>
    /\ \E k \in DOMAIN epc : epc[k] = "mux"

\* C12: every episode submitted to the pool produces its result in the end,
\* whatever happens to the other episodes (a missing stream, an existing
\* output, a failed command, an exception).
C12_EverySubmittedEpisodeReturns ==
    \A k \in EpisodeKeys :
        (k \in DOMAIN epc /\ epc[k] = "queued") ~> (k \in DOMAIN eres /\ eres[k] # None)

\* in a pool of one worker the second episode succeeds after the first one
\* has failed
C12_Witness ==
    /\ cfg.entry = "batch" /\ cfg.workers <= 0
    /\ DOMAIN eres = {"E01", "E02"}
    /\ eres["E01"] # None /\ ~Val(eres["E01"]).success
    /\ eres["E02"] # None /\ Val(eres["E02"]).success

\* C13: when the pool loop of a batch has finished, one result has been
\* collected for each job (as many results as jobs, one for each key), the
\* successes and the failures add up to the number of jobs, and the exit code
\* is 0 when every result is a success and 1 when an episode failed.
C13_OneResultPerJobAndExitCode ==
    (cfg.entry = "batch" /\ rpc = "exit" /\ rjobs # << >>) =>
        LET ok == {i \in DOMAIN rresults : Val(eres[rresults[i]]).success}
            fail == {i \in DOMAIN rresults : ~Val(eres[rresults[i]]).success}
        IN  /\ Len(rresults) = Len(rjobs)
            /\ \A j \in DOMAIN rjobs :
                  Cardinality({i \in DOMAIN rresults : rresults[i] = rjobs[j].key}) = 1
            /\ \A i \in DOMAIN rresults : Val(eres[rresults[i]]).key = rresults[i]
            /\ Cardinality(ok) + Cardinality(fail) = Len(rjobs)
            /\ rexit = Some(IF fail = {} THEN 0 ELSE 1)

\* a batch of two episodes ends with one success, one failure and exit code 1
C13_Witness ==
    /\ cfg.entry = "batch" /\ rpc = "exit" /\ rexit = Some(1)
    /\ Len(rjobs) = 2
    /\ \E i, j \in DOMAIN rresults :
          Val(eres[rresults[i]]).success /\ ~Val(eres[rresults[j]]).success

\* C14: for a list of pairs that is not empty, run_batch of muxage builds one
\* job for each pair, submits them and returns the exit code 0 or 1 after one
\* result for each pair; no exception leaves run_batch.
C14_RunBatchReturnsAnExitCode ==
    (cfg.entry = "batch" /\ cfg.prog = "muxage" /\ rpairs # None /\ Val(rpairs) # << >>) =>
        /\ rpc # "raised"
        /\ rpc \in {"submit", "collect", "exit"} => Len(rjobs) = Len(Val(rpairs))
        /\ rpc = "exit" => /\ rexit \in {Some(0), Some(1)}
                           /\ Len(rresults) = Len(Val(rpairs))

\* C15: in both directions of muxage.processor, with dry-run off, the
\* temporary audio file an episode has produced does not exist any more when
\* the episode has finished, whether the mux succeeded or failed.
C15_TempGoneWhenEpisodeFinished ==
    \A k \in DOMAIN epc :
        (/\ cfg.prog = "muxage" /\ epc[k] = "done" /\ ~JobOf(k).dry_run
         /\ eloc[k].tmp_audio_path # None)
            => Val(eloc[k].tmp_audio_path) \notin DOMAIN fs

(***************************************************************************)
(* Properties of the episode functions.                                    *)
(***************************************************************************)
\* the file at path has an audio stream whose tag, in lower case, is in tags
\* or begins with one of prefixes
HasAudioTagged(path, tags, prefixes) ==
    LET streams == Streams(cfg.media[path])
    IN  \E i \in DOMAIN streams :
           /\ streams[i].codec_type = "audio"
           /\ \/ Lower(streams[i].language) \in tags
              \/ \E p \in prefixes : StartsWith(Lower(streams[i].language), p)

\* the episode of key k misses the Japanese audio of its VOSTFR file or the
\* French audio of its VF file
MissesAnAudio(k) ==
    \/ ~HasAudioTagged(VostfrPath(JobOf(k)), {"jpn", "ja", "japanese"}, {"jp"})
    \/ ~HasAudioTagged(VfPath(JobOf(k)), {"fra", "fre", "fr"}, {})

\* C16: an episode whose VOSTFR file has no audio with a Japanese tag, or
\* whose VF file has no audio with a French tag, ends with a failure and runs
\* no command at all; each file is inspected once and the episode never goes
\* past the selection.
C16_MissingAudioFailsWithoutCommand ==
    \A k \in DOMAIN epc :
        MissesAnAudio(k) =>
            /\ ecalls[k] = << >>
            /\ epc[k] \in {"new", "queued", "inspect", "done"}
            /\ eloc[k].probes <= 2
            /\ epc[k] = "done" => /\ ~Val(eres[k]).success
                                  /\ Val(eres[k]).ffmpeg_mux_cmd = None
                                  /\ Val(eres[k]).ffmpeg_preproc_cmd = None

\* run_batch of mux_multi has returned the failure of an episode without
\* Japanese audio, and process_episode_vostfr_to_vf the failure of an episode
\* without French audio
C16_Witness ==
    \E k \in DOMAIN epc :
        /\ epc[k] = "done" /\ eloc[k].probes = 2 /\ fs = fs0
        /\ \/ cfg.entry = "batch" /\ Val(eres[k]).message = "no_vo"
           \/ /\ cfg.prog = "muxage" /\ cfg.direction = "vostfr_to_vf"
              /\ Val(eres[k]).message = "no_fr"

\* the language tags of the audio tracks a command marks as default
DefaultAudioLanguages(cmd) ==
    {OptionValues(cmd, "-metadata:s:a:" \o ToString(n))[1] :
        n \in {m \in 0..1 : OptionValues(cmd, "-disposition:a:" \o ToString(m)) = <<"default">>}}

\* C17: in the mux command of an episode of muxage the audio track marked
\* default is the one default_vf designates: the French one when default_vf
\* is true, the Japanese one when it is false, in both directions.
C17_DefaultAudioFollowsSelector ==
    \A k \in DOMAIN ecalls : \A c \in CallsOf(k, "mux") :
        cfg.prog = "muxage" =>
            DefaultAudioLanguages(c.cmd) =
                {IF cfg.default_vf THEN "language=fra" ELSE "language=jpn"}

\* the episode of key k, in vf_to_vostfr, has the base file with video at
\* 24000/1001, Japanese audio and a French subtitle, and the donor file with
\* French audio at 25 frames a second; speed correction is not switched off
IsFilmOverPal(k) ==
    /\ cfg.direction = "vf_to_vostfr" /\ ~JobOf(k).no_speedfix
    /\ cfg.media[JobOf(k).base_path] = "VostfrGood"
    /\ cfg.media[JobOf(k).donor_path] = "VfPal"

\* C18: for that episode the speed correction is decided, and the mux command
\* has as audio 0 the Japanese stream of the base file, tagged jpn and
\* default, as audio 1 the French audio read from the temporary file that the
\* preprocessing wrote with the speed correction, tagged fra and not default,
\* and as default subtitle the French subtitle at its position among the
\* subtitles that are passed through.
C18_FilmOverPalPlan ==
    \A k \in DOMAIN ecalls :
        IsFilmOverPal(k) =>
            /\ epc[k] \in {"check", "preproc", "mux", "cleanup", "export"}
                  => eloc[k].will_speedfix
            /\ \A c \in CallsOf(k, "mux") :
                  LET temp == TempPath(cfg.prog, OutDir, k)
                  IN  /\ eloc[k].will_speedfix
                      /\ \E p \in CallsOf(k, "preproc") :
                            /\ Inputs(p.cmd) = <<JobOf(k).donor_path>>
                            /\ OptionValues(p.cmd, "-map") = <<"0:1">>
                            /\ Len(OptionValues(p.cmd, "-af")) = 1
                            /\ EndsWith(OptionValues(p.cmd, "-af")[1], Atempo)
                            /\ p.cmd[Len(p.cmd)] = temp
                      /\ Inputs(c.cmd) = <<JobOf(k).base_path, temp>>
                      /\ OptionValues(c.cmd, "-map")
                            \in {<<"0:v:0", "0:a:0", "1:a:0", "0:s?", "0:t?">>,
                                 <<"0:v:0", "0:1", "1:a:0", "0:s?", "0:t?">>}
                      /\ OptionValues(c.cmd, "-metadata:s:a:0")[1] = "language=jpn"
                      /\ OptionValues(c.cmd, "-disposition:a:0") = <<"default">>
                      /\ OptionValues(c.cmd, "-metadata:s:a:1")[1] = "language=fra"
                      /\ OptionValues(c.cmd, "-disposition:a:1") = <<"0">>
                      /\ OptionValues(c.cmd, "-disposition:s:1") = <<"default">>
                      /\ \A n \in {0, 2, 3} :
                            OptionValues(c.cmd, "-disposition:s:" \o ToString(n)) = << >>

\* the batch of mux_multi has paired E01 and its episode has succeeded
C18_Witness ==
    /\ cfg.entry = "batch" /\ "E01" \in DOMAIN ecalls
    /\ IsFilmOverPal("E01")
    /\ CallsOf("E01", "preproc") # {} /\ CallsOf("E01", "mux") # {}
    /\ epc["E01"] = "done" /\ Val(eres["E01"]).success
    /\ Val(eres["E01"]).speedfix_applied

\* C19: when ffmpeg or ffprobe is missing the run ends with exit code 2
\* before anything is paired, inspected or submitted: no pair, no job, no
\* episode, no call of ffprobe or ffmpeg, no file written.
C19_MissingToolAbortsFirst ==
    (cfg.entry = "batch" /\ ~cfg.tools) =>
        /\ rpc \in {"deps", "exit"}
        /\ rpc = "exit" => rexit = Some(2)
        /\ rpairs = None /\ rjobs = << >> /\ rqueue = << >> /\ rresults = << >>
        /\ DOMAIN epc = {} /\ DOMAIN ecalls = {} /\ DOMAIN eloc = {}
        /\ fs = fs0

\* run_batch of muxage has ended with exit code 2
C19_Witness ==
    /\ cfg.entry = "batch" /\ cfg.prog = "muxage" /\ ~cfg.tools
    /\ cfg.dirs = "BatchDirs"
    /\ rpc = "exit" /\ rexit = Some(2)

\* the positions, in the stream list of the file at path, of the subtitles
\* with a French tag
FrenchSubtitles(path) ==
    LET streams == Streams(cfg.media[path])
    IN  {i \in DOMAIN streams : /\ streams[i].codec_type = "subtitle"
                                /\ Lower(streams[i].language) \in {"fra", "fre", "fr"}}

\* the number of subtitle streams of the file before the stream at position i
SubtitlesBefore(path, i) ==
    LET streams == Streams(cfg.media[path])
    IN  Cardinality({j \in 1..(i - 1) : streams[j].codec_type = "subtitle"})

\* the subtitle positions n for which a command has a "-disposition:s:n"
SubtitleDirectives(cmd) ==
    {n \in 0..9 : OptionValues(cmd, "-disposition:s:" \o ToString(n)) # << >>}

\* C20: when the VOSTFR file has a subtitle with a French tag, the mux command
\* has one subtitle disposition, "default", for position p, the number of
\* subtitle streams before the first French one; when it has none, the
\* command has no subtitle disposition and the episode does not fail for it.
C20_DefaultSubtitleIsRelative ==
    \A k \in DOMAIN ecalls : \A c \in CallsOf(k, "mux") :
        LET path == VostfrPath(JobOf(k))
            fr == FrenchSubtitles(path)
            first == CHOOSE i \in fr : \A j \in fr : i <= j
        IN  /\ Cardinality({i \in DOMAIN c.cmd : StartsWith(c.cmd[i], "-disposition:s:")})
                  = Cardinality(SubtitleDirectives(c.cmd))
            /\ fr # {} =>
                  /\ SubtitleDirectives(c.cmd) = {SubtitlesBefore(path, first)}
                  /\ OptionValues(c.cmd, "-disposition:s:"
                                             \o ToString(SubtitlesBefore(path, first)))
                        = <<"default">>
            /\ fr = {} =>
                  /\ SubtitleDirectives(c.cmd) = {}
                  /\ (epc[k] = "done" /\ eloc[k].rc = 0 /\ Val(eres[k]).message # "error")
                        => Val(eres[k]).success

\* process_episode_vostfr_to_vf has run a mux command whose default subtitle
\* is at position 1, the French subtitle being stream 3 of the VOSTFR file
C20_Witness ==
    \E k \in DOMAIN ecalls :
        /\ cfg.prog = "muxage" /\ cfg.direction = "vostfr_to_vf"
        /\ cfg.media[VostfrPath(JobOf(k))] = "VostfrGood"
        /\ epc[k] = "done" /\ Val(eres[k]).success
        /\ \E c \in CallsOf(k, "mux") : SubtitleDirectives(c.cmd) = {1}

(***************************************************************************)
(* SpecCsv: parse_offsets_csv on the rows csv.reader yields for a file     *)
(* that exists.  A row is the sequence of its fields, each a string.       *)
(***************************************************************************)
MaxRows == 2

Whitespace == {" ", "\t"}

\* str.strip()
RECURSIVE Strip(_)
Strip(s) ==
    IF s = "" THEN ""
    ELSE IF CharAt(s, 1) \in Whitespace THEN Strip(SubSeq(s, 2, Len(s)))
    ELSE IF CharAt(s, Len(s)) \in Whitespace THEN Strip(SubSeq(s, 1, Len(s) - 1))
    ELSE s

\* re.fullmatch(r"[Ee]\d{2,3}", key)
KeyFullMatch(key) ==
    /\ Len(key) \in {3, 4}
    /\ CharAt(key, 1) \in {"E", "e"}
    /\ \A i \in 2..Len(key) : IsDigitAt(key, i)

DigitValue ==
    ("0" :> 0) @@ ("1" :> 1) @@ ("2" :> 2) @@ ("3" :> 3) @@ ("4" :> 4)
    @@ ("5" :> 5) @@ ("6" :> 6) @@ ("7" :> 7) @@ ("8" :> 8) @@ ("9" :> 9)

\* the value of the digits of s read after acc, single underscores allowed
\* between two digits; None where int() raises ValueError
RECURSIVE DigitsValue(_, _, _)
DigitsValue(s, acc, afterDigit) ==
    IF s = "" THEN (IF afterDigit THEN Some(acc) ELSE None)
    ELSE IF CharAt(s, 1) \in Digits
    THEN DigitsValue(SubSeq(s, 2, Len(s)), 10 * acc + DigitValue[CharAt(s, 1)], TRUE)
    ELSE IF CharAt(s, 1) = "_" /\ afterDigit
    THEN DigitsValue(SubSeq(s, 2, Len(s)), acc, FALSE)
    ELSE None

\* an int() that reads 0 where it cannot read a number
IntOfOrZero(off_str) == Some(0)

\* int(off_str): blanks around, a sign, decimal digits; None for ValueError
IntOf(off_str) ==
    LET t == Strip(off_str)
    IN  IF t = "" THEN None
        ELSE IF CharAt(t, 1) = "-"
        THEN LET v == DigitsValue(SubSeq(t, 2, Len(t)), 0, FALSE)
             IN  IF v = None THEN None ELSE Some(0 - Val(v))
        ELSE IF CharAt(t, 1) = "+" THEN DigitsValue(SubSeq(t, 2, Len(t)), 0, FALSE)
        ELSE DigitsValue(t, 0, FALSE)

\* the body of the loop: the dict after the row
OffsetsAfterRow(offsets, row) ==
    IF Len(row) < 2 THEN offsets
    ELSE LET key == Strip(row[1])
         IN  IF key = "" \/ ~KeyFullMatch(key) THEN offsets
             ELSE LET k == "E" \o SubSeq(key, 2, Len(key))
                      offset_ms == IntOf(Strip(row[2]))
                  IN  IF offset_ms = None THEN offsets
                      ELSE [x \in DOMAIN offsets \cup {k} |->
                               IF x = k THEN Val(offset_ms) ELSE offsets[x]]

\* the first fields and the second fields of the rows tried
KeyFields == {"E07", "e07", " E123 ", "E7", "SE07"}

OffsetFields == {"150", " -20 ", "+5", "abc", "1.5", ""}

RowInputs ==
    {<<k, o>> : k \in KeyFields, o \in OffsetFields}
        \cup {<< >>, <<"E07">>, <<"e07", "7", "note">>}

RECURSIVE RowSeqs(_)
RowSeqs(n) ==
    IF n = 0 THEN {<< >>}
    ELSE RowSeqs(n - 1) \cup {Append(q, r) : q \in {p \in RowSeqs(n - 1) : Len(p) = n - 1},
                                              r \in RowInputs}

InitCsv ==
    /\ crows \in RowSeqs(MaxRows)
    /\ ci = 0
    /\ coffsets = EmptyMap
    /\ cpc = "loop"
    /\ CsvAlone

\* one turn of "for row in reader"
CsvRow ==
    /\ cpc = "loop"
    /\ ci < Len(crows)
    /\ coffsets' = OffsetsAfterRow(coffsets, crows[ci + 1])
    /\ ci' = ci + 1
    /\ UNCHANGED <<crows, cpc>>
    /\ UNCHANGED csvRest

\* return offsets
CsvReturn ==
    /\ cpc = "loop"
    /\ ci = Len(crows)
    /\ cpc' = "ret"
    /\ UNCHANGED <<crows, ci, coffsets>>
    /\ UNCHANGED csvRest

NextCsv == CsvRow \/ CsvReturn

SpecCsv == InitCsv /\ [][NextCsv]_vars

\* what the fields tried mean: the key a first field stands for, the number
\* a second field stands for, None for a malformed one
KeyMeaning ==
    ("E07" :> Some("E07")) @@ ("e07" :> Some("E07")) @@ (" E123 " :> Some("E123"))
    @@ ("E7" :> None) @@ ("SE07" :> None)

OffsetMeaning ==
    ("150" :> Some(150)) @@ (" -20 " :> Some(-20)) @@ ("+5" :> Some(5))
    @@ ("7" :> Some(7)) @@ ("abc" :> None) @@ ("1.5" :> None) @@ ("" :> None)

\* the well-formed rows among the first n
WellFormedRows(n) ==
    {i \in 1..n : /\ Len(crows[i]) >= 2
                  /\ KeyMeaning[crows[i][1]] # None
                  /\ OffsetMeaning[crows[i][2]] # None}

\* the mapping the well-formed rows among the first n define: for each of
\* their keys the offset of the last of them
MappingOfRows(n) ==
    LET KeyOf(i) == Val(KeyMeaning[crows[i][1]])
    IN  [k \in {KeyOf(i) : i \in WellFormedRows(n)} |->
            LET last == CHOOSE i \in WellFormedRows(n) :
                            /\ KeyOf(i) = k
                            /\ \A j \in WellFormedRows(n) : KeyOf(j) = k => j <= i
            IN  Val(OffsetMeaning[crows[last][2]])]

\* C21: parse_offsets_csv returns the mapping the well-formed rows define (key
\* E or e and two or three digits, written "E" and the digits; an integer
\* offset; the last row of a key wins) after it has read every row; a
\* malformed row is skipped and the entries of the other rows stay.
C21_MalformedRowsAreSkipped ==
    /\ cpc \in {"loop", "ret"} => coffsets = MappingOfRows(ci)
    /\ cpc = "ret" => ci = Len(crows)

\* a row with a text for offset comes after a good row of the same key
C21_Witness ==
    /\ cpc = "ret"
    /\ crows = << <<"E07", "150">>, <<"e07", "abc">> >>
    /\ coffsets = ("E07" :> 150)

\* the positions in ecalls[k] of the calls of one operation
CallPositions(k, op) == {i \in DOMAIN ecalls[k] : ecalls[k][i].op = op}

\* C22: an episode runs the preprocessing exactly when the speed correction
\* was decided or the offset is not zero.  Then the mux command runs only
\* after the preprocessing has returned 0 and reads the temporary file as its
\* second input; when the preprocessing fails no mux command runs and the
\* result is a failure.  Without preprocessing the mux command is the only
\* command of the mux and reads the donor file as its second input.
C22_TwoStagePipeline ==
    \A k \in DOMAIN ecalls :
        LET job == JobOf(k)
            need == eloc[k].will_speedfix \/ job.offset_ms # 0
            temp == TempPath(cfg.prog, OutDir, k)
        IN  /\ CallPositions(k, "preproc") # {} => need
            /\ Cardinality(CallPositions(k, "preproc")) <= 1
            /\ Cardinality(CallPositions(k, "mux")) <= 1
            /\ (need /\ epc[k] \in {"mux", "cleanup", "export"})
                  => CallPositions(k, "preproc") # {}
            /\ \A i \in CallPositions(k, "mux") :
                  IF need
                  THEN /\ CallPositions(k, "preproc") = {i - 1}
                       /\ eloc[k].tmp_audio_path = Some(temp)
                       /\ Inputs(ecalls[k][i].cmd) = <<job.base_path, temp>>
                  ELSE /\ i = 1
                       /\ \A j \in DOMAIN ecalls[k] : ecalls[k][j].op \in {"mux", "export"}
                       /\ Inputs(ecalls[k][i].cmd) = <<job.base_path, job.donor_path>>
            /\ (/\ CallPositions(k, "preproc") # {} /\ epc[k] # "preproc"
                /\ eloc[k].tmp_audio_path = None)
                  => /\ epc[k] = "done" /\ ~Val(eres[k]).success
                     /\ Val(eres[k]).message = "preproc_failed"
                     /\ CallPositions(k, "mux") = {}

\* an episode with an offset and no speed correction has run both commands
C22_Witness ==
    \E k \in DOMAIN ecalls :
        /\ ~eloc[k].will_speedfix /\ JobOf(k).offset_ms = 150
        /\ CallPositions(k, "preproc") = {1} /\ CallPositions(k, "mux") = {2}
        /\ epc[k] = "done" /\ Val(eres[k]).success

(***************************************************************************)
(* Properties of the audio selectors of the mux commands.                  *)
(***************************************************************************)
\* the absolute index of the first audio stream of a kind of file whose tag,
\* in lower case, is in tags or begins with one of prefixes
FirstAudioTagged(name, tags, prefixes) ==
    LET streams == Streams(name)
        hits == {i \in DOMAIN streams :
                    /\ streams[i].codec_type = "audio"
                    /\ \/ Lower(streams[i].language) \in tags
                       \/ \E p \in prefixes : StartsWith(Lower(streams[i].language), p)}
    IN  streams[CHOOSE i \in hits : \A j \in hits : i <= j].index

\* the selectors of the two audio tracks: the "-map" values behind the video's
AudioSelectors(cmd) == SubSeq(OptionValues(cmd, "-map"), 2, 3)

\* the audio of the base file that a command built after a preprocessing
\* leaves untouched, as a selector by absolute index on input 0
UntouchedAbsolute(a) ==
    IF a.fn = "build_mux_command_vostfr_to_vf"
    THEN "0:" \o ToString(FirstAudioTagged(a.vf, LANG_FR_SET, {}))
    ELSE "0:" \o ToString(FirstAudioTagged(a.vostfr, {"jpn", "ja", "japanese"}, {"jp"}))

\* C23: in the command every builder returns after a preprocessing, one audio
\* selector is "1:a:0", the only stream of the temporary file, and the other
\* is the untouched audio of the base file by its absolute stream index,
\* "0:<index>", never by its position among the audio streams.
C23_UntouchedAudioByAbsoluteIndex ==
    (bpc = "ret" /\ Val(bargs).use_temp) =>
        LET sel == AudioSelectors(Val(bcmd))
        IN  {sel[1], sel[2]} = {"1:a:0", UntouchedAbsolute(Val(bargs))}

(***************************************************************************)
(* Properties of the order of the batch.                                   *)
(***************************************************************************)
\* key a is before key b: it is shorter, or as long and first in the
\* alphabet
ShorterThenAlphabetical(a, b) ==
    \/ Len(a) < Len(b)
    \/ Len(a) = Len(b) /\ StrLess(a, b)

\* C24: the keys of the pair list are strictly ascending, shorter keys first
\* and keys of one length in alphabetical order; the jobs are the pairs in
\* that order; a job is submitted only when every job whose key is before
\* its own has been submitted, and the jobs waiting for a worker wait in
\* that order.
C24_SubmittedInPairOrder ==
    cfg.entry = "batch" =>
        /\ rpairs # None =>
              \A i, j \in DOMAIN Val(rpairs) :
                  i < j => ShorterThenAlphabetical(Val(rpairs)[i][1], Val(rpairs)[j][1])
        /\ rjobs # << >> =>
              /\ Len(rjobs) = Len(Val(rpairs))
              /\ \A i \in DOMAIN rjobs : rjobs[i].key = Val(rpairs)[i][1]
        /\ \A j, k \in DOMAIN epc :
              (ShorterThenAlphabetical(k, j) /\ epc[j] # "new") => epc[k] # "new"
        /\ \A i, j \in DOMAIN rqueue :
              i < j => ShorterThenAlphabetical(rqueue[i], rqueue[j])

\* run_batch of mux_multi has submitted the job of E99 and not yet the job
\* of E100
C24_Witness ==
    /\ cfg.entry = "batch" /\ cfg.dirs = "LongKeyDirs"
    /\ rpairs # None /\ Len(Val(rpairs)) = 2
    /\ Val(rpairs)[1][1] = "E99" /\ Val(rpairs)[2][1] = "E100"
    /\ rpc = "submit"
    /\ epc["E99"] = "queued" /\ epc["E100"] = "new"
    /\ rqueue = <<"E99">>

(***************************************************************************)
(* Properties of the cleanup of mux_multi.                                 *)
(***************************************************************************)
\* C25: in process_episode of mux_multi, whatever happens while the temporary
\* file is looked for and deleted, an episode whose mux command returned 0
\* ends as a success, and an episode whose mux command failed ends with the
\* failure of the mux and its message.
C25_CleanupKeepsTheOutcome ==
    cfg.prog = "mux_multi" =>
        \A k \in DOMAIN epc :
            (epc[k] = "done" /\ CallPositions(k, "mux") # {}) =>
                IF eloc[k].rc = 0
                THEN Val(eres[k]).success
                ELSE ~Val(eres[k]).success /\ Val(eres[k]).message = "mux_failed"

(***************************************************************************)
(* Properties of the scan as a function of the tree.                       *)
(***************************************************************************)
\* the mapping of scan_dir_for_keys when its loop meets the files in the
\* order of seq
RECURSIVE ScanInOrder(_, _, _)
ScanInOrder(t, seq, relax) ==
    IF seq = << >> THEN EmptyMap
    ELSE ScanStep(t, ScanInOrder(t, SubSeq(seq, 1, Len(seq) - 1), relax),
                  seq[Len(seq)], relax)

\* the orders in which a top-down walk can meet the files of a tree: each
\* file once, directory after directory in the order of one walk
Visits(tree) ==
    {seq \in [1..Cardinality(tree) -> tree] :
        /\ \A i, j \in DOMAIN seq : seq[i] = seq[j] => i = j
        /\ \E walk \in WalkOrders :
              \A i, j \in DOMAIN seq :
                  i < j => Val(PositionIn(walk, seq[i].dir)) <= Val(PositionIn(walk, seq[j].dir))}

\* C26: the mapping scan_dir_for_keys returns for a tree is the mapping it
\* returns for every other order in which a walk can meet the files of that
\* tree.
C26_ScanIgnoresVisitOrder ==
    spc \in {"scanB", "pair", "done"} =>
        \A seq \in Visits(strees.A) : ScanInOrder("A", seq, srelax) = smap.A

(***************************************************************************)
(* Properties of the files of a batch.                                     *)
(***************************************************************************)
\* the files the episode of key k writes: its output and its temporary file
FilesOf(k) == {JobOf(k).out_path, TempPath(cfg.prog, OutDir, k)}

\* the episodes a step belongs to: those whose position or calls it changes
Acting == {k \in DOMAIN epc \cap DOMAIN epc' : epc'[k] # epc[k] \/ ecalls'[k] # ecalls[k]}

\* the files a step writes, overwrites or deletes
Touched ==
    {p \in DOMAIN fs \cup DOMAIN fs' :
        \/ p \notin DOMAIN fs
        \/ p \notin DOMAIN fs'
        \/ fs'[p] # fs[p]}

\* C27: in a batch, two jobs with different keys have different temporary
\* paths and different output paths, neither being a path of the other job;
\* and every step that writes, overwrites or deletes a file is a step of one
\* episode on one of its own two files, whatever the interleaving.
C27_EpisodesWriteTheirOwnFiles ==
    /\ [](cfg.entry = "batch" =>
            \A i, j \in DOMAIN rjobs :
                rjobs[i].key # rjobs[j].key => FilesOf(rjobs[i].key) \cap FilesOf(rjobs[j].key) = {})
    /\ [][cfg.entry = "batch" =>
            \A p \in Touched : \E k \in Acting : Acting = {k} /\ p \in FilesOf(k)]_vars

\* two episodes of a batch of mux_multi are running at once and the
\* temporary file of each of them is there
C27_Witness ==
    /\ cfg.entry = "batch" /\ cfg.prog = "mux_multi"
    /\ \E j, k \in DOMAIN epc :
          /\ j # k
          /\ epc[j] = "mux" /\ epc[k] = "mux"
          /\ TempPath(cfg.prog, OutDir, j) \in DOMAIN fs
          /\ TempPath(cfg.prog, OutDir, k) \in DOMAIN fs

(***************************************************************************)
(* Properties of the languages of the output audio tracks.                 *)
(***************************************************************************)
\* the number of the input that reads the VOSTFR file, or the temporary file
\* made of it: input 1 in build_mux_command_vostfr_to_vf, else input 0
VostfrInput(a) == IF a.fn = "build_mux_command_vostfr_to_vf" THEN 1 ELSE 0

\* the absolute indices of the streams of a kind of file that the selector
\* sel designates when the file is input i: "i:<index>" is the stream of that
\* index, "i:a:<r>" the audio stream with r audio streams before it
Designates(sel, i, name) ==
    LET streams == Streams(name)
        AudioBefore(h) == Cardinality({g \in 1..(h - 1) : streams[g].codec_type = "audio"})
    IN  {streams[h].index : h \in
            {g \in DOMAIN streams :
                \/ sel = ToString(i) \o ":" \o ToString(streams[g].index)
                \/ /\ streams[g].codec_type = "audio"
                   /\ sel = ToString(i) \o ":a:" \o ToString(AudioBefore(g))}}

\* the selector sel maps the Japanese audio of the VOSTFR side: the only
\* stream of the temporary file when that audio was preprocessed, else the
\* first audio stream of the VOSTFR file with a Japanese tag
MapsJapanese(a, sel) ==
    IF a.use_temp /\ VostfrInput(a) = 1
    THEN sel = "1:a:0"
    ELSE Designates(sel, VostfrInput(a), a.vostfr)
            = {FirstAudioTagged(a.vostfr, {"jpn", "ja", "japanese"}, {"jp"})}

\* the selector sel maps the French audio of the VF side
MapsFrench(a, sel) ==
    IF a.use_temp /\ VostfrInput(a) = 0
    THEN sel = "1:a:0"
    ELSE Designates(sel, 1 - VostfrInput(a), a.vf) = {FirstAudioTagged(a.vf, LANG_FR_SET, {})}

\* C28: in the command of every builder, for every default_vf and with or
\* without preprocessing, each of the two audio positions has one language,
\* "jpn" or "fra"; the position labelled "jpn" maps the Japanese audio of the
\* VOSTFR side and the position labelled "fra" the French audio of the VF
\* side, or the temporary file made of it.
C28_LanguageAgreesWithMapping ==
    bpc = "ret" =>
        \A n \in 1..2 :
            LET sel == AudioSelectors(Val(bcmd))[n]
                meta == OptionValues(Val(bcmd), "-metadata:s:a:" \o ToString(n - 1))
                langs == {meta[i] : i \in {j \in DOMAIN meta : StartsWith(meta[j], "language=")}}
            IN  \/ langs = {"language=jpn"} /\ MapsJapanese(Val(bargs), sel)
                \/ langs = {"language=fra"} /\ MapsFrench(Val(bargs), sel)

\* build_mux_command_vostfr_to_vf with default_vf has put the French audio,
\* stream 2 of the VF file, first and the Japanese audio, the second audio
\* stream of the VOSTFR file, second
C28_Witness ==
    /\ bpc = "ret"
    /\ Val(bargs).fn = "build_mux_command_vostfr_to_vf"
    /\ Val(bargs).default_vf /\ ~Val(bargs).use_temp
    /\ Val(bargs).vostfr = "VostfrInterleaved" /\ Val(bargs).vf = "VfFilm"
    /\ AudioSelectors(Val(bcmd)) = <<"0:2", "1:a:1">>
    /\ OptionValues(Val(bcmd), "-metadata:s:a:0") = <<"language=fra", "title=VF">>
    /\ OptionValues(Val(bcmd), "-metadata:s:a:1") = <<"language=jpn", "title=VO (Japonais)">>

(***************************************************************************)
(* Properties of the dry run.                                              *)
(***************************************************************************)
\* the episode of key k has got past the selection of its two audio streams
\* and past the test of its output file
PastTheChecks(k) ==
    /\ eloc[k].out_existed # None
    /\ ~OutputBlocks(Val(eloc[k].out_existed), JobOf(k).force)

\* C29: in a dry run no command of any episode starts a process, the files
\* stay as they were when the run started (nothing written, no temporary file
\* deleted), and every episode that got past the selection and the test of
\* its output file ends as a success.
C29_DryRunStartsAndWritesNothing ==
    cfg.dry_run =>
        /\ fs = fs0
        /\ \A k \in DOMAIN epc :
              /\ \A i \in DOMAIN ecalls[k] : ~ecalls[k][i].started
              /\ (epc[k] = "done" /\ PastTheChecks(k)) => Val(eres[k]).success

(***************************************************************************)
(* Properties of the filter chain of the preprocessing.                    *)
(***************************************************************************)
\* the filter chain of a preprocessing command, "" when it has none
ChainOf(cmd) ==
    IF OptionValues(cmd, "-af") = << >> THEN "" ELSE OptionValues(cmd, "-af")[1]

\* C30: in every preprocessing command the chain begins with the offset
\* filter when the offset is not zero (adelay for a positive offset, atrim
\* and asetpts for a negative one) and ends with the speed correction exactly
\* when the speed correction was decided for the episode, so the offset
\* filter is ahead of it; with no_speedfix no chain has the speed correction,
\* and an episode with no_speedfix and an offset that is not zero still runs
\* the preprocessing, with the offset filter, once it is past the checks.
C30_OffsetFilterBeforeSpeedFilter ==
    \A k \in DOMAIN ecalls :
        LET job == JobOf(k)
            o == job.offset_ms
        IN  /\ \A c \in CallsOf(k, "preproc") :
                  LET chain == ChainOf(c.cmd)
                  IN  /\ Len(OptionValues(c.cmd, "-af")) <= 1
                      /\ Contains(chain, "atempo") <=> eloc[k].will_speedfix
                      /\ Contains(chain, "atempo") => EndsWith(chain, Atempo)
                      /\ o > 0 => StartsWith(chain, "adelay=" \o ToString(o))
                      /\ o < 0 => StartsWith(chain, "atrim=start=" \o TrimSeconds[o]
                                                        \o ",asetpts=PTS-STARTPTS")
                      /\ o = 0 => chain = Atempo
                      /\ job.no_speedfix => ~Contains(chain, "atempo")
            /\ (job.no_speedfix /\ o # 0 /\ PastTheChecks(k) /\ epc[k] # "preproc")
                  => CallsOf(k, "preproc") # {}

\* an episode with an offset of -1500 ms and a speed correction has run its
\* preprocessing: trim, new timestamps, then the speed correction; another
\* case is an episode with no_speedfix and an offset, which the second
\* conjunct is about
C30_Witness ==
    \E k \in DOMAIN ecalls :
        /\ eloc[k].will_speedfix /\ JobOf(k).offset_ms = -1500
        /\ \E c \in CallsOf(k, "preproc") :
              ChainOf(c.cmd) = "atrim=start=1.5,asetpts=PTS-STARTPTS,atempo=0.95904"

=============================================================================
